---- MODULE Spec2Model ----
(***************************************************************************)
(* Model of the skype-sdk model-validation and event-dispatch pipeline:    *)
(* the validation engine, the model type hierarchy (populatePlainInput and *)
(* validate), the instantiation factories, the webhook event               *)
(* classification (processRequestData) and the action-sequence check       *)
(* (validateActionArray).                                                  *)
(***************************************************************************)
EXTENDS Integers, Sequences, FiniteSets, TLC

(***************************************************************************)
(* JavaScript values.  Every value is a record                             *)
(*   t     : the kind ("undefined", "null", "string", "number", "boolean", *)
(*           "array", "object")                                            *)
(*   s     : the text of a string                                          *)
(*   n     : the number; for a boolean 1/0; for an object its identity     *)
(*   items : the elements of an array                                      *)
(*   cls   : the class of an object ("Object" for a plain object)          *)
(*   f     : the own properties of an object, key |-> value                *)
(***************************************************************************)
NoProps == [k \in {} |-> 0]

Val(t, s, n, items, cls, f) ==
    [t |-> t, s |-> s, n |-> n, items |-> items, cls |-> cls, f |-> f]

Undefined == Val("undefined", "", 0, <<>>, "", NoProps)
Null      == Val("null", "", 0, <<>>, "", NoProps)
Str(s)    == Val("string", s, 0, <<>>, "", NoProps)
Num(n)    == Val("number", "", n, <<>>, "", NoProps)
Bool(b)   == Val("boolean", "", IF b THEN 1 ELSE 0, <<>>, "", NoProps)
Arr(xs)   == Val("array", "", 0, xs, "", NoProps)
Obj(ref, cls, f) == Val("object", "", ref, <<>>, cls, f)
\* new String(s): an object of identity ref that wraps the text s
StringObject(s, ref) == Val("object", s, ref, <<>>, "String", NoProps)
\* typeof v === 'string' || v instanceof String
IsStringValue(v) == v.t = "string" \/ (v.t = "object" /\ v.cls = "String")

\* JS `v == null`: true of null and of undefined.
IsNull(v) == v.t \in {"null", "undefined"}
\* JS truthiness of the values the model draws.
Truthy(v) ==
    CASE v.t \in {"null", "undefined"} -> FALSE
      [] v.t = "string"  -> v.s # ""
      [] v.t = "number"  -> v.n # 0
      [] v.t = "boolean" -> v.n = 1
      [] OTHER -> TRUE
\* JS `a === b`: objects and arrays by identity, primitives by value.
StrictEq(a, b) == a.t = b.t /\ a.s = b.s /\ a.n = b.n /\ a.t # "array"
\* The key under which a JS Set holds a value (SameValueZero).
SetKey(v) == <<v.t, v.s, v.n>>
\* Property read: undefined when the object has no such own property.
Get(o, k) == IF k \in DOMAIN o.f THEN o.f[k] ELSE Undefined
\* this[k] = v
SetProp(o, k, v) ==
    [o EXCEPT !.f = [kk \in (DOMAIN o.f) \cup {k} |->
                        IF kk = k THEN v ELSE o.f[kk]]]
\* String(v), as used when a value is concatenated into a message.
ToText(v) ==
    CASE v.t = "string" -> v.s
      [] v.t = "null" -> "null"
      [] v.t = "undefined" -> "undefined"
      [] v.t = "boolean" -> IF v.n = 1 THEN "true" ELSE "false"
      [] v.t = "number" -> "<number>"
      [] v.t = "array" -> "<array>"
      [] v.t = "object" /\ v.cls = "String" -> v.s
      [] OTHER -> "[object Object]"

(***************************************************************************)
(* The strings of the model and their characters.                          *)
(***************************************************************************)
CharsOf(s) ==
    CASE s = "" -> <<>>
      [] s = " " -> <<" ">>
      [] s = "x" -> <<"x">>
      [] s = "hi" -> <<"h", "i">>
      [] s = "8:alice" -> <<"8", ":", "a", "l", "i", "c", "e">>
      [] s = "28:bot" -> <<"2", "8", ":", "b", "o", "t">>
      [] s = "28:bot2" -> <<"2", "8", ":", "b", "o", "t", "2">>
      [] s = "19:g@thread.skype" ->
            <<"1", "9", ":", "g", "@", "t", "h", "r", "e", "a", "d", ".",
              "s", "k", "y", "p", "e">>
      [] s = "2024-01-01T00:00:00Z" ->
            <<"2", "0", "2", "4", "-", "0", "1", "-", "0", "1", "T", "0", "0",
              ":", "0", "0", ":", "0", "0", "Z">>
      [] s = "yesterday" -> <<"y", "e", "s", "t", "e", "r", "d", "a", "y">>
      [] s = "11" -> <<"1", "1">>
      [] s = "1x" -> <<"1", "x">>
      [] s = "12345" -> <<"1", "2", "3", "4", "5">>
      [] s = "123456" -> <<"1", "2", "3", "4", "5", "6">>
      [] s = "0123456789*#ABCD0123" ->
            <<"0", "1", "2", "3", "4", "5", "6", "7", "8", "9", "*", "#",
              "A", "B", "C", "D", "0", "1", "2", "3">>
      [] s = "Image" -> <<"I", "m", "a", "g", "e">>
      [] s = "bogus" -> <<"b", "o", "g", "u", "s">>
      [] s = "xxx" -> <<"x", "x", "x">>
      [] s = "eHh4" -> <<"e", "H", "h", "4">>
      [] s = "not base64!" ->
            <<"n", "o", "t", " ", "b", "a", "s", "e", "6", "4", "!">>
      [] OTHER -> <<s>>

\* Texts too long to spell out, by their length; each is a letter or a
\* group of letters repeated, and CharsOf gives one character only
LongTexts ==
    ("x repeated 1024000 times" :> 1024000) @@ ("x repeated 1024001 times" :> 1024001)
    @@ ("xxx repeated 5242875 times" :> 15728625)
    @@ ("xxx repeated 5242881 times" :> 15728643)
    @@ ("eHh4 repeated 5242875 times" :> 20971500)
    @@ ("eHh4 repeated 5242881 times" :> 20971524)

\* s.length
StrLen(s) == IF s \in DOMAIN LongTexts THEN LongTexts[s] ELSE Len(CharsOf(s))

\* /\S/.test(s)
HasNonWhitespace(s) == \E i \in DOMAIN CharsOf(s) : CharsOf(s)[i] \notin {" "}

\* hay.indexOf(needle) != -1
Contains(hay, needle) ==
    LET h == CharsOf(hay)
        m == CharsOf(needle)
    IN  \E i \in 0..(Len(h) - Len(m)) :
            \A j \in 1..Len(m) : h[i + j] = m[j]

\* /@thread.skype/.test(s): the dot matches any character
MatchesThreadSkype(s) ==
    LET h == CharsOf(s)
        p == <<"@", "t", "h", "r", "e", "a", "d", ".", "s", "k", "y", "p", "e">>
    IN  \E i \in 0..(Len(h) - Len(p)) :
            \A j \in 1..Len(p) : j = 8 \/ h[i + j] = p[j]

\* The ISO 8601 pattern of ActivityIncomingBase.validate, on the model's strings.
MatchesIso8601(s) == s \in {"2024-01-01T00:00:00Z"}

(***************************************************************************)
(* Results of validate(): the list of errors it returns, or the exception  *)
(* it throws.                                                              *)
(***************************************************************************)
Errs(es)    == [thrown |-> FALSE, errors |-> es, exc |-> ""]
Thrown(msg) == [thrown |-> TRUE, errors |-> <<>>, exc |-> msg]
NoErrors    == Errs(<<>>)

\* errors = errors.concat(more): more is not evaluated once errors has thrown
a ++ b == IF a.thrown THEN a
          ELSE IF b.thrown THEN b
          ELSE Errs(a.errors \o b.errors)

\* if (cond) errors.push(msg)
PushIf(a, cond, msg) == IF a.thrown \/ ~cond THEN a ELSE Errs(Append(a.errors, msg))

(***************************************************************************)
(* Validation engine (model-validation).  A limit argument that the caller *)
(* leaves out is Undefined.                                                *)
(***************************************************************************)
\* a < b on JS values: false unless both are numbers (NaN compares false)
JsLess(a, b) == a.t = "number" /\ b.t = "number" /\ a.n < b.n

\* typeof v
TypeOf(v) ==
    CASE v.t = "null" -> "object"
      [] v.t = "array" -> "object"
      [] OTHER -> v.t

validateString(v, stringName, canBeEmptyOrWhitespace, maxLen, minLen) ==
    IF IsNull(v) THEN Errs(<<stringName \o " must not be null">>)
    ELSE IF ~IsStringValue(v) THEN Errs(<<stringName \o " is not a string">>)
    ELSE LET e1 == PushIf(NoErrors,
                     ~canBeEmptyOrWhitespace /\ ~HasNonWhitespace(v.s),
                     stringName \o " must not be empty or whitespaces only")
             e2 == PushIf(e1,
                     ~IsNull(minLen) /\ JsLess(Num(StrLen(v.s)), minLen),
                     stringName \o " length is less than allowed minimum")
         IN  PushIf(e2,
                     ~IsNull(maxLen) /\ JsLess(maxLen, Num(StrLen(v.s))),
                     stringName \o " length is more than allowed maximum")

validateOptionalString(v, stringName, canBeEmptyOrWhitespace, maxLen, minLen) ==
    IF IsNull(v) THEN NoErrors
    ELSE validateString(v, stringName, canBeEmptyOrWhitespace, maxLen, minLen)

\* The model draws numbers and non-numeric values only (no numeric strings).
validateNumber(v, numberName, minValue, maxValue) ==
    IF IsNull(v) THEN Errs(<<numberName \o " is null">>)
    ELSE IF v.t # "number" THEN Errs(<<numberName \o " is not numeric">>)
    ELSE IF ~IsNull(minValue) /\ JsLess(v, minValue)
         THEN Errs(<<numberName \o " value is less than allowed minimum">>)
    ELSE IF ~IsNull(maxValue) /\ JsLess(maxValue, v)
         THEN Errs(<<numberName \o " value is more than allowed maximum">>)
    ELSE NoErrors

validateOptionalNumber(v, numberName, minValue, maxValue) ==
    IF IsNull(v) THEN NoErrors ELSE validateNumber(v, numberName, minValue, maxValue)

\* enumDictionary is the set of the dictionary's values; notAllowedValuesList
\* is a set, empty when the caller passes none.
validateEnum(v, enumDictionary, enumName, notAllowedValuesList) ==
    IF IsNull(v) THEN Errs(<<enumName \o " is null">>)
    ELSE IF ~(v.t = "string" /\ v.s \in enumDictionary)
         THEN Errs(<<enumName \o " value " \o ToText(v) \o " is invalid">>)
    ELSE PushIf(NoErrors, v.s \in notAllowedValuesList,
                enumName \o " must not have value from list")

validateOptionalEnum(v, enumDictionary, enumName, notAllowedValuesList) ==
    IF IsNull(v) THEN NoErrors
    ELSE validateEnum(v, enumDictionary, enumName, notAllowedValuesList)

validateArray(v, arrayName, canBeEmpty, canHaveDuplicates, maxSize) ==
    IF IsNull(v) THEN Errs(<<arrayName \o " is null">>)
    ELSE IF v.t # "array"
         THEN Errs(<<arrayName \o " is not instance of Array but " \o TypeOf(v)>>)
    ELSE IF Len(v.items) = 0
         THEN PushIf(NoErrors, ~canBeEmpty, arrayName \o " is empty")
    ELSE LET e1 == PushIf(NoErrors,
                     ~canHaveDuplicates /\
                     Cardinality({SetKey(v.items[i]) : i \in 1..Len(v.items)})
                         # Len(v.items),
                     arrayName \o " contains duplicates")
         IN  PushIf(e1, ~IsNull(maxSize) /\ JsLess(maxSize, Num(Len(v.items))),
                    "Number of items in " \o arrayName \o " exceeds maximum value")

\* notAllowedValuesList is a sequence of strings, empty when none is passed
validateEnumArray(v, enumDictionary, arrayName, notAllowedValuesList) ==
    LET first == validateArray(v, arrayName, FALSE, FALSE, Undefined)
        RECURSIVE items(_)
        items(i) == IF i = 0 THEN NoErrors
                    ELSE items(i - 1) ++
                         validateEnum(v.items[i], enumDictionary,
                                      arrayName \o " item", {})
        RECURSIVE banned(_)
        banned(k) == IF k = 0 THEN items(Len(v.items))
                     ELSE PushIf(banned(k - 1),
                            \E i \in 1..Len(v.items) :
                                StrictEq(v.items[i], Str(notAllowedValuesList[k])),
                            arrayName \o " must not contain value "
                                \o notAllowedValuesList[k])
    IN  IF Len(first.errors) > 0 THEN first
        ELSE banned(Len(notAllowedValuesList))

validateBoolean(v, valueName) ==
    IF IsNull(v) THEN Errs(<<valueName \o " is null">>)
    ELSE PushIf(NoErrors, v.t # "boolean", valueName \o " is not a boolean value but string")

validateOptionalBoolean(v, valueName) ==
    IF IsNull(v) THEN NoErrors ELSE validateBoolean(v, valueName)

checkIfObject(v) == Truthy(v) /\ v.t = "object"

validateGenericObject(v, valueName, canBeNull) ==
    IF IsNull(v) THEN PushIf(NoErrors, ~canBeNull, valueName \o " must not be null")
    ELSE PushIf(NoErrors, ~checkIfObject(v), valueName \o " is not an object but undefined")


(***************************************************************************)
(* Model type hierarchy: classes, populatePlainInput, validate.            *)
(***************************************************************************)
\* class |-> the class it extends
Extends(cls) ==
    CASE cls \in {"IncomingMessage", "IncomingAttachment", "ContactRelationUpdate",
                  "ConversationUpdate"} -> "ActivityIncomingBase"
      [] cls \in {"Answer", "Hangup", "PlaceCall", "PlayPrompt", "Recognize", "Record",
                  "Reject", "Transfer", "VideoSubscription"} -> "ActionBase"
      [] cls = "AnswerAppHostedMedia" -> "Answer"
      [] cls \in {"AnswerAppHostedMediaOutcome", "AnswerOutcome", "HangupOutcome",
                  "PlayPromptOutcome", "RejectOutcome", "TransferOutcome",
                  "VideoSubscriptionOutcome", "WorkflowValidationOutcome", "PlaceCallOutcome",
                  "RecognizeOutcome", "RecordOutcome"} -> "OperationOutcomeBase"
      [] cls \in {"CallStateChangeNotification", "RosterUpdateNotification"} -> "NotificationBase"
      [] cls = "NotificationBase" -> "ConversationBase"
      [] cls \in {"OperationOutcomeBase", "ConversationBase", "ChoiceOutcome",
                  "CollectDigitsOutcome", "TranscriptionOutcome", "RosterParticipant"}
            -> "AbstractModelType"
      [] cls \in {"ActivityIncomingBase", "WebhookMessage", "AttachmentViewInfo", "ActionBase",
                  "Participant", "Prompt", "CollectDigits", "RecognitionOption"}
            -> "AbstractModelType"
      [] cls \in {"Activity", "ActivityMessage", "Workflow", "CallBackLink"}
            -> "AbstractModelType"
      [] OTHER -> ""

RECURSIVE InstanceOf(_, _)
\* v instanceof type
InstanceOf(v, type) ==
    /\ v.t = "object"
    /\ v.cls # ""
    /\ \/ v.cls = type
       \/ InstanceOf([v EXCEPT !.cls = Extends(v.cls)], type)

\* An exception travelling out of a constructor, as a value.
Exc(msg) == Val("throw", msg, 0, <<>>, "", NoProps)
IsExc(v) == v.t = "throw"

RECURSIVE Validate(_)

\* An array element constructed at index i is a new object, of identity i
Identified(x, i) == IF IsExc(x) THEN x ELSE [x EXCEPT !.n = i]

\* The exception a constructor function threw while v was built, Null if none
ThrownIn(v) ==
    IF IsExc(v) THEN v
    ELSE IF v.t = "array" /\ \E i \in 1..Len(v.items) : IsExc(v.items[i])
         THEN v.items[CHOOSE i \in 1..Len(v.items) :
                        /\ IsExc(v.items[i])
                        /\ \A j \in 1..(i - 1) : ~IsExc(v.items[j])]
    ELSE Null

\* The <<key, attribute>> pairs populatePlainInput hands to a constructor
\* function: the attributes of inputData under the keys of objectClasses,
\* an array attribute item by item.
Attributes(inputData, objectClasses) ==
    IF IsNull(inputData) THEN {}
    ELSE UNION {IF inputData.f[key].t = "array"
                THEN {<<key, inputData.f[key].items[i]>> :
                         i \in 1..Len(inputData.f[key].items)}
                ELSE {<<key, inputData.f[key]>>} :
                key \in objectClasses \cap DOMAIN inputData.f}

\* AbstractModelType.populatePlainInput.  objectClasses is the set of keys of
\* the caller's objectClasses map and objectClass[<<key, attribute>>] is
\* objectClasses[key](attribute), the constructor function the map holds,
\* tabulated over Attributes(inputData, objectClasses).
populatePlainInput(this, inputData, objectClasses, objectClass) ==
    IF IsNull(inputData) THEN this
    ELSE
      LET keys == (DOMAIN inputData.f) \cap (DOMAIN this.f)
          populated ==
              [key \in DOMAIN this.f |->
                  IF key \notin keys THEN this.f[key]
                  ELSE IF key \notin objectClasses THEN inputData.f[key]
                  ELSE IF inputData.f[key].t = "array"
                       THEN Arr([i \in 1..Len(inputData.f[key].items) |->
                                   Identified(objectClass[<<key, inputData.f[key].items[i]>>], i)])
                  ELSE IF ~IsNull(inputData.f[key]) THEN objectClass[<<key, inputData.f[key]>>]
                  ELSE this.f[key]]
          thrown == {ThrownIn(populated[key]) : key \in keys \cap objectClasses} \ {Null}
      IN  IF thrown # {} THEN CHOOSE x \in thrown : TRUE
          ELSE [this EXCEPT !.f = populated]

\* populatePlainInput(inputData): no objectClasses
NoClasses == {}
NoClass == <<>>

\* Enums of the messaging model
IncomingActivityType == {"attachment", "contactRelationUpdate", "conversationUpdate", "message"}
AttachmentType == {"Image", "Video"}
AttachmentViewType == {"original", "thumbnail"}
ContactRelationAction == {"add", "remove"}

\* What typed-object validation does with one item
validateTypedObject(item, type, itemName, expectedTypeName) ==
    IF IsNull(item) THEN Errs(<<itemName \o " is null">>)
    ELSE LET e1 == PushIf(NoErrors, ~InstanceOf(item, type),
                     itemName \o " is not of expected type " \o expectedTypeName
                         \o " but of type " \o TypeOf(item))
         IN  IF InstanceOf(item, "AbstractModelType") THEN e1 ++ Validate(item) ELSE e1

validateOptionalTypedObject(item, type, itemName, expectedTypeName) ==
    IF IsNull(item) THEN NoErrors
    ELSE validateTypedObject(item, type, itemName, expectedTypeName)

validateTypedObjectArray(array, type, arrayName, expectedTypeName) ==
    LET first == validateArray(array, arrayName, FALSE, FALSE, Undefined)
        RECURSIVE items(_)
        items(i) == IF i = 0 THEN NoErrors
                    ELSE items(i - 1) ++
                         validateTypedObject(array.items[i], type,
                                             arrayName \o " item", expectedTypeName)
    IN  IF Len(first.errors) > 0 THEN first ELSE items(Len(array.items))

\* ModelValidation has no member validateOptionalArrayOfStrings: the call is a
\* call of undefined.
validateOptionalArrayOfStrings(v, arrayName) ==
    Thrown("TypeError: ModelValidation.validateOptionalArrayOfStrings is not a function")

(***************************************************************************)
(* Outgoing messaging activity.  The class Message of the activity module  *)
(* is ActivityMessage here, Message being the event of that name.          *)
(***************************************************************************)
LimitsV2 ==
    [MessageContentSizeBytes |-> [Min |-> Num(1), Max |-> Num(1024000)],
     AttachmentRequestSize |-> [Min |-> Num(1), Max |-> Num(20971520)]]

ActivityMessage(inputData) ==
    populatePlainInput(Obj(0, "ActivityMessage", [content |-> Null]),
                       inputData, NoClasses, NoClass)

\* Message.validate: maxLen is the object Limits.MessageContentSizeBytes
ActivityMessageValidate(this) ==
    validateString(this.f.content, "Message.content", FALSE,
                   Obj(0, "Object", LimitsV2.MessageContentSizeBytes), Undefined)

Activity(inputData) ==
    populatePlainInput(Obj(0, "Activity", [message |-> Null]),
                       inputData, {"message"},
                       [p \in Attributes(inputData, {"message"}) |-> ActivityMessage(p[2])])

ActivityValidate(this) ==
    validateTypedObject(this.f.message, "ActivityMessage", "Activity.message", "Message")

(***************************************************************************)
(* Incoming messaging activities                                           *)
(***************************************************************************)
AttachmentViewInfo(inputData) ==
    populatePlainInput(
        Obj(0, "AttachmentViewInfo", [viewId |-> Null, size |-> Null]),
        inputData, NoClasses, NoClass)

AttachmentViewInfoValidate(this) ==
    validateEnum(this.f.viewId, AttachmentViewType, "AttachmentViewInfo.viewId", {})
    ++ validateOptionalNumber(this.f.size, "AttachmentViewInfo.size", Undefined, Undefined)

\* The constructor of the base class, run for an instance of class cls
ActivityIncomingBase(cls, inputData) ==
    populatePlainInput(
        Obj(0, cls, [activity |-> Null, from |-> Null, to |-> Null, time |-> Null]),
        inputData, NoClasses, NoClass)

ActivityIncomingBaseValidate(this) ==
    LET e == validateEnum(this.f.activity, IncomingActivityType,
                          "ActivityIncomingBase.activity", {})
             ++ validateString(this.f.from, "ActivityIncomingBase.from", FALSE, Undefined, Undefined)
             ++ validateString(this.f.to, "ActivityIncomingBase.to", FALSE, Undefined, Undefined)
             ++ validateString(this.f.time, "ActivityIncomingBase.time", FALSE, Undefined, Undefined)
    IN  PushIf(e, this.f.time.t = "string" /\ ~MatchesIso8601(this.f.time.s),
               "ActivityIncomingBase.time value undefined is not a valid timestamp string according to ISO8601")

\* this.k1 = null; ...: the own properties a subclass constructor adds
WithDefaults(this, defaults) ==
    [this EXCEPT !.f = [k \in (DOMAIN this.f) \cup (DOMAIN defaults) |->
                          IF k \in DOMAIN defaults THEN defaults[k] ELSE this.f[k]]]

IncomingMessage(inputData) ==
    populatePlainInput(
        WithDefaults(ActivityIncomingBase("IncomingMessage", inputData),
                     [id |-> Null, content |-> Null, activity |-> Str("message")]),
        inputData, NoClasses, NoClass)

IncomingMessageValidate(this) ==
    PushIf(ActivityIncomingBaseValidate(this)
           ++ validateString(this.f.id, "IncomingMessage.id", FALSE, Undefined, Undefined)
           ++ validateString(this.f.content, "IncomingMessage.content", FALSE, Undefined, Undefined),
           ~IsNull(this.f.activity) /\ ~StrictEq(this.f.activity, Str("message")),
           "IncomingMessage.activity is set to invalid value " \o ToText(this.f.activity))

IncomingAttachment(inputData) ==
    populatePlainInput(
        WithDefaults(ActivityIncomingBase("IncomingAttachment", inputData),
                     [id |-> Null, type |-> Null, name |-> Null, views |-> Null,
                      activity |-> Str("attachment")]),
        inputData, {"views"},
        [p \in Attributes(inputData, {"views"}) |-> AttachmentViewInfo(p[2])])

IncomingAttachmentValidate(this) ==
    PushIf(ActivityIncomingBaseValidate(this)
           ++ validateString(this.f.id, "IncomingAttachment.id", FALSE, Undefined, Undefined)
           ++ validateEnum(this.f.type, AttachmentType, "IncomingAttachment.type", {})
           ++ validateOptionalString(this.f.name, "IncomingAttachment.name", FALSE, Undefined, Undefined)
           ++ validateTypedObjectArray(this.f.views, "AttachmentViewInfo",
                                       "IncomingAttachment.views", "AttachmentViewInfo"),
           ~IsNull(this.f.activity) /\ ~StrictEq(this.f.activity, Str("attachment")),
           "IncomingAttachment.activity is set to invalid value " \o ToText(this.f.activity))

ContactRelationUpdate(inputData) ==
    populatePlainInput(
        WithDefaults(ActivityIncomingBase("ContactRelationUpdate", inputData),
                     [action |-> Null, fromDisplayName |-> Null,
                      activity |-> Str("contactRelationUpdate")]),
        inputData, NoClasses, NoClass)

ContactRelationUpdateValidate(this) ==
    PushIf(ActivityIncomingBaseValidate(this)
           ++ validateEnum(this.f.action, ContactRelationAction, "ContactRelationUpdate.action", {})
           ++ validateOptionalString(this.f.fromDisplayName,
                                     "ContactRelationUpdate.fromDisplayName", FALSE, Undefined, Undefined),
           ~IsNull(this.f.activity) /\ ~StrictEq(this.f.activity, Str("contactRelationUpdate")),
           "ContactRelationUpdate.activity is set to invalid value " \o ToText(this.f.activity))

ConversationUpdate(inputData) ==
    populatePlainInput(
        WithDefaults(ActivityIncomingBase("ConversationUpdate", inputData),
                     [membersAdded |-> Null, membersRemoved |-> Null, topicName |-> Null,
                      historyDisclosed |-> Null, activity |-> Str("conversationUpdate")]),
        inputData, NoClasses, NoClass)

ConversationUpdateValidate(this) ==
    LET e == ActivityIncomingBaseValidate(this)
             ++ validateOptionalArrayOfStrings(this.f.membersAdded, "ConversationUpdate.membersAdded")
             ++ validateOptionalArrayOfStrings(this.f.membersRemoved, "ConversationUpdate.membersRemoved")
             ++ validateOptionalString(this.f.topicName, "ConversationUpdate.topicName", FALSE, Undefined, Undefined)
             ++ validateOptionalBoolean(this.f.historyDisclosed, "ConversationUpdate.historyDisclosed")
        e2 == PushIf(e, ~IsNull(this.f.activity)
                        /\ ~StrictEq(this.f.activity, Str("conversationUpdate")),
                     "ConversationUpdate.activity is set to invalid value " \o ToText(this.f.activity))
    IN  PushIf(e2, IsNull(this.f.membersAdded) /\ IsNull(this.f.membersRemoved)
                   /\ IsNull(this.f.topicName) /\ IsNull(this.f.historyDisclosed),
               "ConversationUpdate is invalid, no optional attribute is set")

\* The null, type and discriminant checks every factory starts with:
\* the message of the error it throws, "" when it goes on to the switch.
FactoryGuard(data, what, tagKey) ==
    IF IsNull(data) THEN what \o " data are null"
    ELSE IF data.t # "object" THEN "Invalid type of the " \o what \o " data"
    ELSE IF IsNull(Get(data, tagKey))
         THEN tagKey \o " attribute in the " \o what \o " data is undefined or null"
    ELSE ""

instantiateIncomingActivity(inputData) ==
    LET guard == FactoryGuard(inputData, "activity", "activity")
        tag == Get(inputData, "activity")
    IN  IF guard # "" THEN Exc(guard)
        ELSE IF StrictEq(tag, Str("attachment")) THEN IncomingAttachment(inputData)
        ELSE IF StrictEq(tag, Str("contactRelationUpdate")) THEN ContactRelationUpdate(inputData)
        ELSE IF StrictEq(tag, Str("conversationUpdate")) THEN ConversationUpdate(inputData)
        ELSE IF StrictEq(tag, Str("message")) THEN IncomingMessage(inputData)
        ELSE Exc("Unsupported " \o ToText(tag) \o " activity type in the activity data")

\* new WebhookMessage(inputData): the instance, or the exception thrown
WebhookMessage(inputData) ==
    IF IsNull(inputData) THEN Obj(0, "WebhookMessage", [activities |-> Null])
    ELSE IF inputData.t = "array"
    THEN LET made == [i \in 1..Len(inputData.items) |->
                        LET x == instantiateIncomingActivity(inputData.items[i])
                        IN  IF IsExc(x) THEN x ELSE [x EXCEPT !.n = i]]
             bad == {i \in 1..Len(made) : IsExc(made[i])}
         IN  IF bad # {} THEN made[CHOOSE i \in bad : \A j \in bad : i <= j]
             ELSE Obj(0, "WebhookMessage", [activities |-> Arr(made)])
    ELSE Exc("the input data is not an array")

WebhookMessageValidate(this) ==
    validateTypedObjectArray(this.f.activities, "ActivityIncomingBase",
                             "WebhookMessage.activities", "ActivityIncomingBase")

(***************************************************************************)
(* Events handed to the bot, and the conversion of activities into them.   *)
(***************************************************************************)
\* The checks and copies an event constructor makes after its super() call:
\* mandatory is the sequence of option names it requires, copied maps each
\* property it assigns to the option it reads.
EventFields(base, event, mandatory, copied) ==
    LET missing == {i \in 1..Len(mandatory) : IsNull(Get(event, mandatory[i]))}
    IN  IF IsExc(base) THEN base
        ELSE IF missing # {}
             THEN Exc("Missing mandatory field \""
                      \o mandatory[CHOOSE i \in missing : \A j \in missing : i <= j] \o "\"")
        ELSE WithDefaults(base, [k \in DOMAIN copied |-> Get(event, copied[k])])

\* new Event(event), run for an instance of class cls
Event(cls, event) ==
    EventFields(Obj(0, cls, NoProps), event, <<"from", "to">>,
                [from |-> "from", to |-> "to", type |-> "type"])

HistoryDisclosed(event) ==
    EventFields(Event("HistoryDisclosed", event), event, <<"historyDisclosed", "eventTime">>,
                [historyDisclosed |-> "historyDisclosed", eventTime |-> "eventTime"])

TopicUpdated(event) ==
    EventFields(Event("TopicUpdated", event), event, <<"topic", "eventTime">>,
                [topic |-> "topic", eventTime |-> "eventTime"])

\* UserRemoved extends UserAdded and adds nothing
UserAdded(cls, event) ==
    EventFields(Event(cls, event), event, <<"targets", "eventTime">>,
                [targets |-> "targets", eventTime |-> "eventTime"])

ContactNotification(event) ==
    EventFields(Event("ContactNotification", event), event, <<"fromDisplayName", "action">>,
                [fromDisplayName |-> "fromDisplayName", action |-> "action"])

Message(event) ==
    EventFields(Event("Message", event), event,
                <<"content", "contentType", "messageId", "eventTime">>,
                [content |-> "content", contentType |-> "contentType",
                 messageId |-> "messageId", eventTime |-> "eventTime"])

Attachment(event) ==
    EventFields(Event("Attachment", event), event,
                <<"attachmentType", "views", "id", "eventTime">>,
                [attachmentName |-> "name", attachmentType |-> "attachmentType",
                 views |-> "views", eventTime |-> "eventTime", id |-> "id"])

WebhookEvent(type, eventObject, replyTo) ==
    [type |-> type, eventObject |-> eventObject, replyTo |-> replyTo]

fromError(errorText) ==
    WebhookEvent("error", Obj(0, "Error", [message |-> Str(errorText)]), Undefined)

\* An event constructor that threw did so before fromData was called: the
\* exception is passed on in place of the event.
fromData(type, eventObject, replyTo) ==
    IF IsExc(eventObject) THEN eventObject
    ELSE WebhookEvent(type, eventObject,
            IF replyTo.t = "undefined" /\ ~IsNull(eventObject)
               /\ ~IsNull(Get(eventObject, "to"))
            THEN Get(eventObject, "to") ELSE replyTo)

_isGroupChatEvent(event) ==
    IF IsNull(event) \/ IsNull(Get(event, "to")) THEN FALSE
    ELSE Get(event, "to").t = "string" /\ MatchesThreadSkype(Get(event, "to").s)

\* What a conversion function hands back: the events it returns, or the
\* exception that ended it.
Converted(attempts) ==
    LET bad == {i \in 1..Len(attempts) : "eventObject" \notin DOMAIN attempts[i]}
    IN  IF bad = {} THEN [thrown |-> FALSE, events |-> attempts, exc |-> ""]
        ELSE [thrown |-> TRUE, events |-> <<>>,
              exc |-> attempts[CHOOSE i \in bad : \A j \in bad : i <= j].s]

\* The options object a conversion passes to an event constructor
Options(f) == Obj(0, "Object", f)

\* One forEach over membersAdded / membersRemoved
MemberEvents(botId, event, members, botType, memberType, cls) ==
    IF IsNull(members) THEN <<>>
    ELSE IF members.t # "array" THEN <<Exc("TypeError: forEach is not a function")>>
    ELSE [i \in 1..Len(members.items) |->
            LET item == members.items[i]
            IN  IF item.t # "string" THEN Exc("TypeError: item.indexOf is not a function")
                ELSE fromData(IF Contains(item.s, botId) THEN botType ELSE memberType,
                              UserAdded(cls, Options([from |-> event.f.from, to |-> event.f.to,
                                                      targets |-> Arr(<<item>>),
                                                      eventTime |-> event.f.time])),
                              Undefined)]

\* What _convertConversationUpdate attempts to push to its local eventsOut,
\* in order: an event, or the exception its construction ends with
ConversationUpdateAttempts(botId, event) ==
        (IF ~IsNull(event.f.historyDisclosed)
         THEN <<fromData("threadHistoryDisclosedUpdate",
                    HistoryDisclosed(Options([from |-> event.f.from, to |-> event.f.to,
                                              historyDisclosed |-> event.f.historyDisclosed,
                                              eventTime |-> event.f.time])),
                    Undefined)>>
         ELSE <<>>)
        \o (IF ~IsNull(event.f.topicName)
            THEN <<fromData("threadTopicUpdated",
                       TopicUpdated(Options([from |-> event.f.from, to |-> event.f.to,
                                             topic |-> event.f.topicName,
                                             eventTime |-> event.f.time])),
                       Undefined)>>
            ELSE <<>>)
        \o MemberEvents(botId, event, event.f.membersAdded,
                        "threadBotAdded", "threadAddMember", "UserAdded")
        \o MemberEvents(botId, event, event.f.membersRemoved,
                        "threadBotRemoved", "threadRemoveMember", "UserRemoved")

_convertConversationUpdate(botId, event) ==
    Converted(ConversationUpdateAttempts(botId, event))

_convertContactRelationUpdate(event) ==
    LET made(type) ==
            fromData(type,
                ContactNotification(Options([from |-> event.f.from, to |-> event.f.to,
                                             action |-> event.f.action,
                                             fromDisplayName |-> event.f.fromDisplayName,
                                             eventTime |-> event.f.time])),
                event.f.from)
    IN  Converted(IF StrictEq(event.f.action, Str("add")) THEN <<made("contactAdded")>>
                  ELSE IF StrictEq(event.f.action, Str("remove")) THEN <<made("contactRemoved")>>
                  ELSE <<>>)

_convertMessage(event) ==
    Converted(<<fromData("message",
                    Message(Options([from |-> event.f.from, to |-> event.f.to,
                                     content |-> event.f.content, contentType |-> Str("text"),
                                     messageId |-> event.f.id, eventTime |-> event.f.time])),
                    Null)>>)

_convertAttachment(event) ==
    Converted(<<fromData("attachment",
                    Attachment(Options([from |-> event.f.from, to |-> event.f.to,
                                        name |-> event.f.name, attachmentType |-> event.f.type,
                                        views |-> event.f.views, eventTime |-> event.f.time,
                                        id |-> event.f.id])),
                    IF _isGroupChatEvent(event) THEN event.f.to ELSE event.f.from)>>)

\* The switch inside the forEach callback of processRequestData: what the
\* conversion chosen by item.activity hands back.
SwitchActivity(botId, item) ==
    LET activity == Get(item, "activity")
    IN  IF StrictEq(activity, Str("conversationUpdate"))
            THEN _convertConversationUpdate(botId, item)
        ELSE IF StrictEq(activity, Str("contactRelationUpdate"))
            THEN _convertContactRelationUpdate(item)
        ELSE IF StrictEq(activity, Str("message")) THEN _convertMessage(item)
        ELSE IF StrictEq(activity, Str("attachment")) THEN _convertAttachment(item)
        ELSE Converted(<<fromError("activity type " \o ToText(activity)
                                   \o " is unsupported by Messaging service v2")>>)

\* The catch of the forEach callback: the events one activity adds to
\* eventsOut, c being what the switch in the try block handed back.
Caught(item, c) ==
    IF c.thrown
    THEN <<fromError("failed to convert " \o ToText(Get(item, "activity"))
                     \o " to an event, error: " \o c.exc)>>
    ELSE c.events

\* A variant of the callback whose catch drops the exception silently
ConvertActivitySilentCatch(botId, item) ==
    SwitchActivity(botId, item).events

\* The events of attempts that were built before the first exception
BuiltBefore(attempts) ==
    SubSeq(attempts, 1,
           (CHOOSE i \in 1..Len(attempts) :
               /\ "eventObject" \notin DOMAIN attempts[i]
               /\ \A j \in 1..(i - 1) : "eventObject" \in DOMAIN attempts[j]) - 1)

\* A variant of the callback in which a ConversationUpdate pushes each event
\* to the shared eventsOut as soon as it is built
ConvertActivityKeepingBuilt(botId, item) ==
    IF StrictEq(Get(item, "activity"), Str("conversationUpdate"))
       /\ SwitchActivity(botId, item).thrown
    THEN BuiltBefore(ConversationUpdateAttempts(botId, item))
         \o Caught(item, SwitchActivity(botId, item))
    ELSE Caught(item, SwitchActivity(botId, item))

\* The body of the forEach callback (the try and its catch)
ConvertActivity(botId, item) == Caught(item, SwitchActivity(botId, item))

\* The events added for the activity at position i, each paired with i
Tagged(i, added) == [k \in 1..Len(added) |-> [src |-> i, ev |-> added[k]]]

RECURSIVE ForEachActivityPrepending(_, _, _)
\* A variant of the loop that puts each activity's events in front of eventsOut
ForEachActivityPrepending(botId, activities, i) ==
    IF i = 0 THEN <<>>
    ELSE Tagged(i, ConvertActivity(botId, activities[i]))
         \o ForEachActivityPrepending(botId, activities, i - 1)

RECURSIVE ForEachActivity(_, _, _)
\* message.activities.forEach(...) over the first i activities: eventsOut,
\* each event paired with the position of the activity it was derived from.
ForEachActivity(botId, activities, i) ==
    IF i = 0 THEN <<>>
    ELSE ForEachActivity(botId, activities, i - 1)
         \o Tagged(i, ConvertActivity(botId, activities[i]))

\* What processRequestData returns when it gives up on the whole batch
BatchError(text) ==
    [thrown |-> FALSE, events |-> <<[src |-> 0, ev |-> fromError(text)]>>, exc |-> ""]

\* processRequestData from message.validate() on, errors being what it returned
AfterValidate(botId, message, errors) ==
    IF errors.thrown THEN [thrown |-> TRUE, events |-> <<>>, exc |-> errors.exc]
    ELSE IF Len(errors.errors) > 0
    THEN BatchError("Incoming webhooks request was invalid, errors: " \o errors.errors[1])
    ELSE [thrown |-> FALSE,
          events |-> ForEachActivity(botId, message.f.activities.items,
                                     Len(message.f.activities.items)),
          exc |-> ""]

\* A variant that goes on to convert the activities of a batch whose
\* validation reported errors
AfterConstructIgnoringErrors(botId, message) ==
    IF IsExc(message) \/ IsNull(message.f.activities)
    THEN [thrown |-> FALSE, events |-> <<>>, exc |-> ""]
    ELSE [thrown |-> FALSE,
          events |-> ForEachActivity(botId, message.f.activities.items,
                                     Len(message.f.activities.items)),
          exc |-> ""]

\* processRequestData from the try block on, message being the wrapper built
\* or the exception caught
AfterConstruct(botId, message) ==
    IF IsExc(message)
    THEN BatchError("Incoming webhooks request could not be parsed, error: " \o message.s)
    ELSE AfterValidate(botId, message, Validate(message))

processRequestDataIgnoringErrors(botId, requestData) ==
    AfterConstructIgnoringErrors(botId, WebhookMessage(requestData))

\* processRequestData: the tagged events it returns (src 0: the batch as a
\* whole), or the exception it throws.
processRequestData(botId, requestData) ==
    AfterConstruct(botId, WebhookMessage(requestData))

(***************************************************************************)
(* Calling model: enums, limits, and the types nested in actions           *)
(***************************************************************************)
CallingModelEnums ==
    [ActionType |-> {"answer", "answerAppHostedMedia", "hangup", "playPrompt", "record",
                     "recognize", "reject", "placeCall", "videoSubscription", "transfer"},
     Culture |-> {"en-US"},
     ModalityType |-> {"unknown", "audio", "video", "videoBasedScreenSharing"},
     NotificationType |-> {"rosterUpdate", "callStateChange"},
     Outcome |-> {"success", "failure"},
     OutcomeType |-> {"answerOutcome", "answerAppHostedMediaOutcome", "hangupOutcome",
                      "rejectOutcome", "placeCallOutcome", "playPromptOutcome",
                      "recordOutcome", "recognizeOutcome", "workflowValidationOutcome",
                      "videoSubscriptionOutcome", "transferOutcome"},
     RecordingFormat |-> {"wma", "wav", "mp3"},
     ResolutionFormat |-> {"sd360p", "sd540p", "hd720p", "hd1080p"},
     SayAs |-> {"yearMonthDay", "monthDayYear", "dayMonthYear", "yearMonth", "monthYear",
                "monthDay", "dayMonth", "day", "month", "year", "cardinal", "ordinal",
                "letters", "time12", "time24", "telephone", "name", "phoneticName"},
     VideoSubscriptionMode |-> {"manual", "auto"},
     VoiceGender |-> {"male", "female"}]

CallingModelLimits ==
    [RecordingDurationSec |-> [Min |-> Num(10), Max |-> Num(600)],
     SilenceTimeoutSec |-> [Min |-> Num(1), Max |-> Num(30)],
     InitialSilenceTimeoutSec |-> [Min |-> Num(1), Max |-> Num(30)],
     InterDigitTimeoutSec |-> [Min |-> Num(1), Max |-> Num(5)],
     NumberOfDtmfsExpected |-> [Min |-> Num(1), Max |-> Num(20)],
     NumberOfStopTones |-> [Min |-> Num(0), Max |-> Num(5)],
     NumberOfSpeechVariations |-> [Min |-> Num(0), Max |-> Num(5)],
     SilentPromptDurationSec |-> [Min |-> Num(0), Max |-> Num(60)],
     LengthOfTTSText |-> [Min |-> Num(0), Max |-> Num(2048)],
     AppStateLength |-> [Min |-> Num(0), Max |-> Num(1024)],
     MediaConfigurationLength |-> [Min |-> Num(0), Max |-> Num(1024)]]

AllowedDtmfs == {"0", "1", "2", "3", "4", "5", "6", "7", "8", "9", "*", "#", "A", "B", "C", "D"}

validateDtmfs(value, itemName) ==
    LET errors == validateString(value, itemName, FALSE, Num(1), Undefined)
    IN  IF Len(errors.errors) > 0 THEN errors
        ELSE PushIf(errors, value.s \notin AllowedDtmfs,
                    "Value " \o value.s \o " in " \o itemName \o " is not valid Dtmfs char")

validateDtmfsArray(arrayValue, arrayName) ==
    LET first == validateArray(arrayValue, arrayName, FALSE, FALSE,
                               CallingModelLimits.NumberOfStopTones.Max)
        RECURSIVE items(_)
        items(i) == IF i = 0 THEN NoErrors
                    ELSE items(i - 1) ++ validateDtmfs(arrayValue.items[i], arrayName \o " item")
    IN  IF Len(first.errors) > 0 THEN first ELSE items(Len(arrayValue.items))

Participant(inputData) ==
    populatePlainInput(
        Obj(0, "Participant", [identity |-> Null, displayName |-> Null, languageId |-> Null,
                               originator |-> Bool(FALSE)]),
        inputData, NoClasses, NoClass)

ParticipantValidate(this) ==
    validateString(this.f.identity, "Participant.identity", FALSE, Undefined, Undefined)
    ++ validateOptionalString(this.f.displayName, "Participant.displayName", FALSE, Undefined, Undefined)
    ++ validateOptionalString(this.f.languageId, "Participant.languageId", FALSE, Undefined, Undefined)
    ++ validateBoolean(this.f.originator, "Participant.originator")

Prompt(inputData) ==
    populatePlainInput(
        Obj(0, "Prompt", [value |-> Null, fileUri |-> Null, voice |-> Null, culture |-> Null,
                          silenceLengthInMilliSeconds |-> Null, emphasize |-> Null,
                          sayAs |-> Null]),
        inputData, NoClasses, NoClass)

\* A variant of Prompt.validate without the test of fileUri beside value
PromptValidateAllowingBoth(this) ==
    LET fileUriSpecified == ~IsNull(this.f.fileUri)
        promptTextSpecified ==
            /\ ~IsNull(this.f.value)
            /\ IF this.f.value.t = "string" THEN HasNonWhitespace(this.f.value.s)
               ELSE ~(this.f.value.t = "array" /\ this.f.value.items = <<>>)
        silence == this.f.silenceLengthInMilliSeconds
        e1 == PushIf(NoErrors,
                     ~fileUriSpecified /\ ~promptTextSpecified
                     /\ (IsNull(silence) \/ (silence.t \in {"number", "boolean"} /\ silence.n <= 0)),
                     "Neither Prompt.fileUri, Prompt.value or valid silence period are specified")
        e3 == IF fileUriSpecified
              THEN e1 ++ validateString(this.f.fileUri, "Prompt.fileUri", FALSE, Undefined, Undefined)
              ELSE e1
        e4 == IF promptTextSpecified
              THEN e3 ++ validateString(this.f.value, "Prompt.value", FALSE,
                                        CallingModelLimits.LengthOfTTSText.Max, Undefined)
              ELSE e3
    IN  e4 ++ validateOptionalNumber(silence, "Prompt.silenceLengthInMilliSeconds", Null,
                                     CallingModelLimits.SilentPromptDurationSec.Max)
           ++ validateOptionalEnum(this.f.voice, CallingModelEnums.VoiceGender, "Prompt.voice", {})
           ++ validateOptionalEnum(this.f.culture, CallingModelEnums.Culture, "Prompt.culture", {})
           ++ validateOptionalEnum(this.f.sayAs, CallingModelEnums.SayAs, "Prompt.sayAs", {})
           ++ validateOptionalBoolean(this.f.emphasize, "Prompt.emphasize")

PromptValidate(this) ==
    LET fileUriSpecified == ~IsNull(this.f.fileUri)
        promptTextSpecified ==
            /\ ~IsNull(this.f.value)
            /\ IF this.f.value.t = "string" THEN HasNonWhitespace(this.f.value.s)
               ELSE ~(this.f.value.t = "array" /\ this.f.value.items = <<>>)
        silence == this.f.silenceLengthInMilliSeconds
        e1 == PushIf(NoErrors,
                     ~fileUriSpecified /\ ~promptTextSpecified
                     /\ (IsNull(silence) \/ (silence.t \in {"number", "boolean"} /\ silence.n <= 0)),
                     "Neither Prompt.fileUri, Prompt.value or valid silence period are specified")
        e2 == PushIf(e1, fileUriSpecified /\ promptTextSpecified,
                     "Prompt.fileUri and Prompt.value must not be specified at the same time")
        e3 == IF fileUriSpecified
              THEN e2 ++ validateString(this.f.fileUri, "Prompt.fileUri", FALSE, Undefined, Undefined)
              ELSE e2
        e4 == IF promptTextSpecified
              THEN e3 ++ validateString(this.f.value, "Prompt.value", FALSE,
                                        CallingModelLimits.LengthOfTTSText.Max, Undefined)
              ELSE e3
    IN  e4 ++ validateOptionalNumber(silence, "Prompt.silenceLengthInMilliSeconds", Null,
                                     CallingModelLimits.SilentPromptDurationSec.Max)
           ++ validateOptionalEnum(this.f.voice, CallingModelEnums.VoiceGender, "Prompt.voice", {})
           ++ validateOptionalEnum(this.f.culture, CallingModelEnums.Culture, "Prompt.culture", {})
           ++ validateOptionalEnum(this.f.sayAs, CallingModelEnums.SayAs, "Prompt.sayAs", {})
           ++ validateOptionalBoolean(this.f.emphasize, "Prompt.emphasize")

CollectDigits(inputData) ==
    populatePlainInput(
        Obj(0, "CollectDigits", [maxNumberOfDtmfs |-> Null, stopTones |-> Null]),
        inputData, NoClasses, NoClass)

CollectDigitsValidate(this) ==
    LET stopTonesSet == ~IsNull(this.f.stopTones)
        e == PushIf(NoErrors, ~stopTonesSet /\ IsNull(this.f.maxNumberOfDtmfs),
                    "Either CollectDigits.maxNumberOfDtmfs or CollectDigits.stopTones must be set")
             ++ validateOptionalNumber(this.f.maxNumberOfDtmfs, "CollectDigits.maxNumberOfDtmfs",
                                       CallingModelLimits.NumberOfDtmfsExpected.Min,
                                       CallingModelLimits.NumberOfDtmfsExpected.Max)
    IN  IF stopTonesSet
        THEN e ++ validateDtmfsArray(this.f.stopTones, "CollectDigits.stopTones")
        ELSE e

RecognitionOption(inputData) ==
    populatePlainInput(
        Obj(0, "RecognitionOption", [name |-> Null, speechVariation |-> Null,
                                     dtmfVariation |-> Null]),
        inputData, NoClasses, NoClass)

RecognitionOptionValidate(this) ==
    LET speechVariationSet == ~IsNull(this.f.speechVariation)
        dmftVariationSet == ~IsNull(this.f.dtmfVariation)
        e0 == validateString(this.f.name, "RecognitionOption.name", FALSE, Undefined, Undefined)
        e1 == e0 ++ validateArray(this.f.speechVariation, "RecognitionOption.speechVariation",
                                  FALSE, FALSE, CallingModelLimits.NumberOfSpeechVariations.Max)
        RECURSIVE items(_)
        items(i) == IF i = 0 THEN e1
                    ELSE items(i - 1) ++
                         validateString(this.f.speechVariation.items[i],
                                        "RecognitionOption.speechVariation item",
                                        FALSE, Undefined, Undefined)
        e2 == IF ~speechVariationSet THEN e0
              ELSE IF Len(e1.errors) = 0 THEN items(Len(this.f.speechVariation.items))
              ELSE e1
    IN  IF ~speechVariationSet /\ ~dmftVariationSet
        THEN PushIf(e0, TRUE,
                    "Neither RecognitionOption.speechVariation or RecognitionOption.dmftVariation is set")
        ELSE IF dmftVariationSet
             THEN e2 ++ validateDtmfs(this.f.dtmfVariation, "RecognitionOption.dtmfVariation")
             ELSE e2

(***************************************************************************)
(* Calling actions                                                         *)
(***************************************************************************)
\* A variant of the table that puts reject among the setup actions
actionOrderingWithRejectAsSetup ==
    [reject |-> 1, answer |-> 1, answerAppHostedMedia |-> 1, placeCall |-> 1,
     videoSubscription |-> 1, playPrompt |-> 2, record |-> 2, recognize |-> 2,
     transfer |-> 2, hangup |-> 3]

actionOrdering ==
    [reject |-> -2, answer |-> 1, answerAppHostedMedia |-> 1, placeCall |-> 1,
     videoSubscription |-> 1, playPrompt |-> 2, record |-> 2, recognize |-> 2,
     transfer |-> 2, hangup |-> 3]

\* The constructor of ActionBase, run for an instance of class cls
ActionBase(cls, inputData, isStandAloneAction) ==
    populatePlainInput(
        Obj(0, cls, [isStandAloneAction |-> IF IsNull(isStandAloneAction) THEN Bool(FALSE)
                                            ELSE isStandAloneAction,
                     operationId |-> Null, action |-> Null, additionalData |-> Null]),
        inputData, NoClasses, NoClass)

ActionBaseValidate(this) ==
    validateString(this.f.operationId, "ActionBase.operationId", FALSE, Undefined, Undefined)
    ++ validateEnum(this.f.action, CallingModelEnums.ActionType, "ActionBase.action", {})
    ++ validateGenericObject(this.f.additionalData, "ActionBase.additionalData", TRUE)
    ++ validateBoolean(this.f.isStandAloneAction, "ActionBase.isStandAloneAction")

\* if(this.type != null && this.type != <tag>) errors.push(...): the check
\* every action's validate() makes of its property `type`
PushIfTypeDiffers(errors, this, tag, className) ==
    PushIf(errors, ~IsNull(Get(this, "type")) /\ ~StrictEq(Get(this, "type"), Str(tag)),
           className \o ".type is set to invalid value " \o ToText(Get(this, "type")))

\* The constructor of Answer, run for an instance of class cls
Answer(cls, inputData, isStandAloneAction) ==
    populatePlainInput(
        WithDefaults(ActionBase(cls, inputData, isStandAloneAction),
                     [action |-> Str("answer"), acceptModalityTypes |-> Arr(<<Str("audio")>>)]),
        inputData, NoClasses, NoClass)

AnswerValidate(this) ==
    PushIfTypeDiffers(ActionBaseValidate(this), this, "answer", "Answer")
    ++ validateEnumArray(this.f.acceptModalityTypes, CallingModelEnums.ModalityType,
                         "Answer.acceptModalityTypes", <<"unknown", "videoBasedScreenSharing">>)

RECURSIVE JsonLength(_)
\* JSON.stringify(v).length of a string, a boolean, null or a plain object
JsonLength(v) ==
    LET RECURSIVE props(_)
        props(keys) ==
            IF keys = {} THEN 0
            ELSE LET k == CHOOSE x \in keys : TRUE
                 IN  StrLen(k) + 3 + JsonLength(v.f[k])
                     + (IF keys = {k} THEN 0 ELSE 1) + props(keys \ {k})
    IN  CASE v.t = "string" -> StrLen(v.s) + 2
          [] v.t = "boolean" -> IF v.n = 1 THEN 4 ELSE 5
          [] v.t = "object" -> 2 + props(DOMAIN v.f)
          [] OTHER -> 4

AnswerAppHostedMedia(inputData, isStandAloneAction) ==
    populatePlainInput(
        WithDefaults(Answer("AnswerAppHostedMedia", inputData, isStandAloneAction),
                     [action |-> Str("answerAppHostedMedia"), mediaConfiguration |-> Null]),
        inputData, NoClasses, NoClass)

AnswerAppHostedMediaValidate(this) ==
    LET e == PushIfTypeDiffers(AnswerValidate(this), this, "answerAppHostedMedia",
                               "AnswerAppHostedMedia")
             ++ validateGenericObject(this.f.mediaConfiguration,
                                      "AnswerAppHostedMedia.mediaConfiguration", FALSE)
    IN  PushIf(e, ~IsNull(this.f.mediaConfiguration) /\ checkIfObject(this.f.mediaConfiguration)
                  /\ JsLess(CallingModelLimits.MediaConfigurationLength.Max,
                            Num(JsonLength(this.f.mediaConfiguration))),
               "AnswerAppHostedMedia.mediaConfiguration exceeds after JSON serialization the maximum allowed length ofundefined")

HangupPopulatedAgain(inputData, isStandAloneAction) ==
    populatePlainInput(
        WithDefaults(ActionBase("Hangup", inputData, isStandAloneAction),
                     [action |-> Str("hangup")]),
        inputData, NoClasses, NoClass)

Hangup(inputData, isStandAloneAction) ==
    WithDefaults(ActionBase("Hangup", inputData, isStandAloneAction), [action |-> Str("hangup")])

HangupValidate(this) ==
    PushIfTypeDiffers(ActionBaseValidate(this), this, "hangup", "Hangup")

PlaceCall(inputData, isStandAloneAction) ==
    populatePlainInput(
        WithDefaults(ActionBase("PlaceCall", inputData, isStandAloneAction),
                     [action |-> Str("placeCall"), source |-> Null, target |-> Null,
                      subject |-> Null, initiateModalityTypes |-> Arr(<<Str("audio")>>),
                      appId |-> Null]),
        inputData, {"source", "target"},
        [p \in Attributes(inputData, {"source", "target"}) |-> Participant(p[2])])

PlaceCallValidate(this) ==
    LET e == PushIfTypeDiffers(ActionBaseValidate(this), this, "placeCall", "PlaceCall")
             ++ validateTypedObject(this.f.source, "Participant", "PlaceCall.source", "Participant")
             ++ validateTypedObject(this.f.target, "Participant", "PlaceCall.target", "Participant")
             ++ validateString(this.f.appId, "PlaceCall.appId", FALSE, Undefined, Undefined)
             ++ validateOptionalString(this.f.subject, "PlaceCall.subject", FALSE, Undefined, Undefined)
             ++ validateEnumArray(this.f.initiateModalityTypes, CallingModelEnums.ModalityType,
                                  "PlaceCall.initiateModalityTypes",
                                  <<"unknown", "videoBasedScreenSharing">>)
        e2 == PushIf(e, ~IsNull(this.f.source) /\ ~Truthy(Get(this.f.source, "originator")),
                     "PlaceCall.source must have set originator to true")
    IN  PushIf(e2, ~IsNull(this.f.target) /\ Truthy(Get(this.f.target, "originator")),
               "PlaceCall.target must have set originator to false")

PlayPrompt(inputData, isStandAloneAction) ==
    populatePlainInput(
        WithDefaults(ActionBase("PlayPrompt", inputData, isStandAloneAction),
                     [action |-> Str("playPrompt"), prompts |-> Null]),
        inputData, {"prompts"},
        [p \in Attributes(inputData, {"prompts"}) |-> Prompt(p[2])])

PlayPromptValidate(this) ==
    PushIfTypeDiffers(ActionBaseValidate(this)
                      ++ validateTypedObjectArray(this.f.prompts, "Prompt",
                                                  "PlayPrompt.prompts", "Prompt"),
                      this, "playPrompt", "PlayPrompt")

Recognize(inputData, isStandAloneAction) ==
    populatePlainInput(
        WithDefaults(ActionBase("Recognize", inputData, isStandAloneAction),
                     [action |-> Str("recognize"), playPrompt |-> Null, bargeInAllowed |-> Null,
                      culture |-> Null, initialSilenceTimeoutInSeconds |-> Null,
                      interDigitTimeoutInSeconds |-> Null, choices |-> Null,
                      collectDigits |-> Null]),
        inputData, {"playPrompt", "choices", "collectDigits"},
        [p \in Attributes(inputData, {"playPrompt", "choices", "collectDigits"}) |->
            CASE p[1] = "playPrompt" -> PlayPrompt(p[2], Undefined)
              [] p[1] = "choices" -> RecognitionOption(p[2])
              [] p[1] = "collectDigits" -> CollectDigits(p[2])])

\* Recognize.validateUniquenessOfChoices, for choices that passed validation
validateUniquenessOfChoices(this) ==
    LET choices == this.f.choices.items
        dtmfsAt == {i \in 1..Len(choices) : ~IsNull(choices[i].f.dtmfVariation)}
        speechAt == {p \in (1..Len(choices)) \X (1..CallingModelLimits.NumberOfSpeechVariations.Max.n) :
                        /\ ~IsNull(choices[p[1]].f.speechVariation)
                        /\ p[2] <= Len(choices[p[1]].f.speechVariation.items)}
        dtmfsChoices == {SetKey(choices[i].f.dtmfVariation) : i \in dtmfsAt}
        speechChoices == {SetKey(choices[p[1]].f.speechVariation.items[p[2]]) : p \in speechAt}
        e == PushIf(NoErrors, Cardinality(dtmfsChoices) # Cardinality(dtmfsAt),
                    "Some dtmfs choices in the Recognize.choices are not unique")
    IN  PushIf(e, Cardinality(speechChoices) # Cardinality(speechAt),
               "Some speech choices in the Recognize.choices are not unique")

RecognizeValidate(this) ==
    LET e == PushIfTypeDiffers(ActionBaseValidate(this), this, "recognize", "Recognize")
             ++ validateOptionalTypedObject(this.f.playPrompt, "PlayPrompt",
                                            "Recognize.playPrompt", "PlayPrompt")
             ++ validateOptionalNumber(this.f.initialSilenceTimeoutInSeconds,
                                       "Recognize.initialSilenceTimeoutInSeconds",
                                       CallingModelLimits.InitialSilenceTimeoutSec.Min, Undefined)
             ++ validateOptionalNumber(this.f.interDigitTimeoutInSeconds,
                                       "Recognize.interDigitTimeoutInSeconds",
                                       CallingModelLimits.InterDigitTimeoutSec.Min, Undefined)
             ++ validateOptionalBoolean(this.f.bargeInAllowed, "Recognize.bargeInAllowed")
             ++ validateOptionalEnum(this.f.culture, CallingModelEnums.Culture, "Recognize.culture", {})
        choiceSpecified == ~IsNull(this.f.choices)
        collectDigitsSpecified == ~IsNull(this.f.collectDigits)
        typed == e ++ validateTypedObjectArray(this.f.choices, "RecognitionOption",
                                               "Recognize.choices", "RecognitionOption")
    IN  IF ~choiceSpecified /\ ~collectDigitsSpecified
        THEN PushIf(e, TRUE, "Neither Recognize.choices or Recognize.collectDigits is specified")
        ELSE IF choiceSpecified /\ collectDigitsSpecified
        THEN PushIf(e, TRUE, "Both Recognize.choices or Recognize.collectDigits are specified")
        ELSE IF choiceSpecified
        THEN IF ~typed.thrown /\ Len(typed.errors) = 0
             THEN typed ++ validateUniquenessOfChoices(this) ELSE typed
        ELSE e ++ validateTypedObject(this.f.collectDigits, "CollectDigits",
                                      "Recognize.collectDigits", "CollectDigits")

Record(inputData, isStandAloneAction) ==
    populatePlainInput(
        WithDefaults(ActionBase("Record", inputData, isStandAloneAction),
                     [action |-> Str("record"), playPrompt |-> Null, maxDurationInSeconds |-> Null,
                      initialSilenceTimeoutInSeconds |-> Null, maxSilenceTimeoutInSeconds |-> Null,
                      recordingFormat |-> Null, transcribe |-> Null, playBeep |-> Null,
                      stopTones |-> Null]),
        inputData, {"playPrompt"},
        [p \in Attributes(inputData, {"playPrompt"}) |-> PlayPrompt(p[2], Undefined)])

RecordValidate(this) ==
    LET e == PushIfTypeDiffers(ActionBaseValidate(this), this, "record", "Record")
        e2 == IF ~IsNull(this.f.stopTones)
              THEN e ++ validateDtmfsArray(this.f.stopTones, "Record.stopTones") ELSE e
    IN  e2 ++ validateOptionalTypedObject(this.f.playPrompt, "PlayPrompt",
                                          "Record.playPrompt", "PlayPrompt")
           ++ validateOptionalNumber(this.f.maxDurationInSeconds, "Record.maxDurationInSeconds",
                                     CallingModelLimits.RecordingDurationSec.Min,
                                     CallingModelLimits.RecordingDurationSec.Max)
           ++ validateOptionalNumber(this.f.initialSilenceTimeoutInSeconds,
                                     "Record.initialSilenceTimeoutInSeconds",
                                     CallingModelLimits.InitialSilenceTimeoutSec.Min,
                                     CallingModelLimits.InitialSilenceTimeoutSec.Max)
           ++ validateOptionalNumber(this.f.maxSilenceTimeoutInSeconds,
                                     "Record.maxSilenceTimeoutInSeconds",
                                     CallingModelLimits.SilenceTimeoutSec.Min,
                                     CallingModelLimits.SilenceTimeoutSec.Max)
           ++ validateOptionalBoolean(this.f.transcribe, "Record.transcribe")
           ++ validateOptionalBoolean(this.f.playBeep, "Record.playBeep")
           ++ validateOptionalEnum(this.f.recordingFormat, CallingModelEnums.RecordingFormat,
                                   "Record.recordingFormat", {})

Reject(inputData, isStandAloneAction) ==
    WithDefaults(ActionBase("Reject", inputData, isStandAloneAction), [action |-> Str("reject")])

RejectValidate(this) ==
    PushIfTypeDiffers(ActionBaseValidate(this), this, "reject", "Reject")

\* s.startsWith(prefix)
StartsWith(s, prefix) ==
    /\ StrLen(prefix) <= StrLen(s)
    /\ SubSeq(CharsOf(s), 1, StrLen(prefix)) = CharsOf(prefix)

Transfer(inputData, isStandAloneAction) ==
    populatePlainInput(
        WithDefaults(ActionBase("Transfer", inputData, isStandAloneAction),
                     [action |-> Str("transfer"), target |-> Null]),
        inputData, {"target"},
        [p \in Attributes(inputData, {"target"}) |-> Participant(p[2])])

TransferValidate(this) ==
    LET e == PushIfTypeDiffers(ActionBaseValidate(this), this, "transfer", "Transfer")
             ++ validateTypedObject(this.f.target, "Participant", "Transfer.target", "Participant")
        identity == Get(this.f.target, "identity")
        e2 == PushIf(e, ~IsNull(identity) /\ ~StartsWith(identity.s, "8:"),
                     "Transfer.target identity must be user skype id, i.e. in form 8:<id>")
    IN  IF e.thrown \/ Len(e.errors) # 0 THEN e
        ELSE PushIf(e2, Truthy(Get(this.f.target, "originator")),
                    "Transfer.target originator must be set to false")

VideoSubscription(inputData, isStandAloneAction) ==
    populatePlainInput(
        WithDefaults(ActionBase("VideoSubscription", inputData, isStandAloneAction),
                     [appState |-> Null, socketId |-> Null, participantIdentity |-> Null,
                      videoSubscriptionMode |-> Str("manual"), videoModality |-> Str("unknown"),
                      videoResolution |-> Str("sd360p"), action |-> Str("videoSubscription")]),
        inputData, NoClasses, NoClass)

VideoSubscriptionValidate(this) ==
    LET e == PushIfTypeDiffers(ActionBaseValidate(this), this, "videoSubscription",
                               "VideoSubscription")
             ++ validateNumber(this.f.socketId, "VideoSubscription.socketId", Num(0), Num(9))
             ++ validateEnum(this.f.videoResolution, CallingModelEnums.ResolutionFormat,
                             "VideoSubscription.videoResolution", {})
             ++ validateEnum(this.f.videoSubscriptionMode, CallingModelEnums.VideoSubscriptionMode,
                             "VideoSubscription.videoSubscriptionMode", {})
             ++ validateEnum(this.f.videoModality, CallingModelEnums.ModalityType,
                             "VideoSubscription.videoModality", {"audio"})
             ++ validateOptionalString(this.f.appState, "VideoSubscription.appState", TRUE,
                                       CallingModelLimits.AppStateLength.Max, Undefined)
        manual == StrictEq(this.f.videoSubscriptionMode, Str("manual"))
        auto == StrictEq(this.f.videoSubscriptionMode, Str("auto"))
        unknown == StrictEq(this.f.videoModality, Str("unknown"))
        e2 == IF manual
              THEN PushIf(e ++ validateString(this.f.participantIdentity,
                                              "VideoSubscription.participantIdentity",
                                              FALSE, Undefined, Undefined),
                          unknown,
                          "VideoSubscription.videoModality cannot be set Unknown with videoSubscriptionMode=Manual")
              ELSE e
        e3 == PushIf(e2, auto /\ ~IsNull(this.f.participantIdentity),
                     "VideoSubscription.participantIdentity must not be set with videoSubscriptionMode=Auto")
    IN  PushIf(e3, auto /\ ~unknown,
               "VideoSubscription.videoModality must be set to Unknown with videoSubscriptionMode=Auto")

\* Math.sign
Sign(n) == IF n > 0 THEN 1 ELSE IF n < 0 THEN -1 ELSE 0

\* A variant of the scan that compares neighbours only and ignores the sign
\* of the first element
OrderingErrorsOfNeighbours(actionArray, actionArrayName) ==
    LET order(i) == actionOrdering[actionArray.items[i].f.action.s]
        RECURSIVE scan(_)
        scan(i) ==
            IF i = 1 THEN <<>>
            ELSE scan(i - 1)
                 \o (IF order(i) < order(i - 1)
                     THEN <<"Actions " \o actionArray.items[i - 1].f.action.s \o " and "
                            \o actionArray.items[i].f.action.s
                            \o " are not in proper order in " \o actionArrayName>>
                     ELSE <<>>)
    IN  scan(Len(actionArray.items))

\* A variant of the scan that compares signs only
OrderingErrorsOfSigns(actionArray, actionArrayName) ==
    LET order(i) == actionOrdering[actionArray.items[i].f.action.s]
        initialSign == Sign(order(1))
        RECURSIVE scan(_)
        scan(i) ==
            IF i = 1 THEN <<>>
            ELSE scan(i - 1)
                 \o (IF initialSign # Sign(order(i))
                     THEN <<"Actions " \o actionArray.items[i - 1].f.action.s \o " and "
                            \o actionArray.items[i].f.action.s
                            \o " are not in proper order in " \o actionArrayName>>
                     ELSE <<>>)
    IN  scan(Len(actionArray.items))

\* The phase-ordering scan at the end of validateActionArray: one error for
\* each element that is out of order after the element before it
OrderingErrors(actionArray, actionArrayName) ==
    LET order(i) == actionOrdering[actionArray.items[i].f.action.s]
        initialSign == Sign(order(1))
        RECURSIVE scan(_)
        scan(i) ==
            IF i = 1 THEN <<>>
            ELSE scan(i - 1)
                 \o (IF order(i) < order(i - 1) \/ initialSign # Sign(order(i))
                     THEN <<"Actions " \o actionArray.items[i - 1].f.action.s \o " and "
                            \o actionArray.items[i].f.action.s
                            \o " are not in proper order in " \o actionArrayName>>
                     ELSE <<>>)
    IN  scan(Len(actionArray.items))

\* A variant of the standalone scan that reports nothing
StandaloneErrorsDropped(items, actionArrayName) == <<>>

\* validateActionArray: one error for each standalone action of a list
StandaloneErrors(items, actionArrayName) ==
    LET RECURSIVE standalone(_)
        standalone(i) ==
            IF i = 0 THEN <<>>
            ELSE standalone(i - 1)
                 \o (IF Truthy(items[i].f.isStandAloneAction)
                     THEN <<"Standalone action of type " \o ToText(items[i].f.action)
                            \o " must not be specified with other actions in " \o actionArrayName>>
                     ELSE <<>>)
    IN  standalone(Len(items))

\* validateActionArray: actionNamesSet, the Set of the items' action fields
actionNamesSet(items) == {SetKey(items[i].f.action) : i \in 1..Len(items)}

\* A variant of the duplicate test that never fires
UsedMultipleTimesNever(items) == FALSE

\* validateActionArray: actionNamesSet.size != actionArray.length
UsedMultipleTimes(items) == Cardinality(actionNamesSet(items)) # Len(items)

\* A variant of the exclusion test that fires only for an answer placed
\* before a placeCall
AnswerBeforePlaceCall(items) ==
    \E i, j \in 1..Len(items) :
        /\ i < j
        /\ SetKey(items[i].f.action) = SetKey(Str("answer"))
        /\ SetKey(items[j].f.action) = SetKey(Str("placeCall"))

\* validateActionArray: actionNamesSet.has(Answer) && actionNamesSet.has(PlaceCall)
AnswerWithPlaceCall(items) ==
    /\ SetKey(Str("answer")) \in actionNamesSet(items)
    /\ SetKey(Str("placeCall")) \in actionNamesSet(items)

\* A variant of the checks that returns at the first rule that reports
ActionArrayChecksStoppingEarly(actionArray, actionArrayName, errors) ==
    IF errors.thrown \/ Len(errors.errors) > 0 THEN errors
    ELSE IF Len(actionArray.items) = 1 THEN errors
    ELSE IF Len(StandaloneErrors(actionArray.items, actionArrayName)) > 0
         THEN Errs(StandaloneErrors(actionArray.items, actionArrayName))
    ELSE IF UsedMultipleTimes(actionArray.items)
         THEN Errs(<<"Some action types are used multiple times in the " \o actionArrayName>>)
    ELSE IF AnswerWithPlaceCall(actionArray.items)
         THEN Errs(<<"Answer and PlaceCall must not appear together in " \o actionArrayName>>)
    ELSE Errs(OrderingErrors(actionArray, actionArrayName))

\* validateActionArray after its first statement, errors being what
\* validateTypedObjectArray returned
ActionArrayChecks(actionArray, actionArrayName, errors) ==
    IF errors.thrown \/ Len(errors.errors) > 0 THEN errors
    ELSE IF Len(actionArray.items) = 1 THEN errors
    ELSE PushIf(PushIf(Errs(StandaloneErrors(actionArray.items, actionArrayName)),
                       UsedMultipleTimes(actionArray.items),
                       "Some action types are used multiple times in the " \o actionArrayName),
                AnswerWithPlaceCall(actionArray.items),
                "Answer and PlaceCall must not appear together in " \o actionArrayName)
         ++ Errs(OrderingErrors(actionArray, actionArrayName))

validateActionArray(actionArray, actionArrayName) ==
    ActionArrayChecks(actionArray, actionArrayName,
        validateTypedObjectArray(actionArray, "ActionBase", actionArrayName, "ActionBase"))

instantiateAction(actionData, isStandAlone) ==
    LET guard == FactoryGuard(actionData, "action", "action")
        tag == Get(actionData, "action")
        isStandAloneAction == IF IsNull(isStandAlone) THEN Bool(FALSE) ELSE isStandAlone
    IN  IF guard # "" THEN Exc(guard)
        ELSE IF StrictEq(tag, Str("answer")) THEN Answer("Answer", actionData, isStandAloneAction)
        ELSE IF StrictEq(tag, Str("answerAppHostedMedia"))
            THEN AnswerAppHostedMedia(actionData, isStandAloneAction)
        ELSE IF StrictEq(tag, Str("hangup")) THEN Hangup(actionData, isStandAloneAction)
        ELSE IF StrictEq(tag, Str("placeCall")) THEN PlaceCall(actionData, isStandAloneAction)
        ELSE IF StrictEq(tag, Str("playPrompt")) THEN PlayPrompt(actionData, isStandAloneAction)
        ELSE IF StrictEq(tag, Str("recognize")) THEN Recognize(actionData, isStandAloneAction)
        ELSE IF StrictEq(tag, Str("record")) THEN Record(actionData, isStandAloneAction)
        ELSE IF StrictEq(tag, Str("reject")) THEN Reject(actionData, isStandAloneAction)
        ELSE IF StrictEq(tag, Str("transfer")) THEN Transfer(actionData, isStandAloneAction)
        ELSE IF StrictEq(tag, Str("videoSubscription"))
            THEN VideoSubscription(actionData, isStandAloneAction)
        ELSE Exc("Unsupported " \o ToText(tag) \o " action in the action data")

(***************************************************************************)
(* Workflow                                                                *)
(***************************************************************************)
CallBackLink(inputData) ==
    populatePlainInput(Obj(0, "CallBackLink", [callBack |-> Null]),
                       inputData, NoClasses, NoClass)

\* /^https?:\/\//i.test(s), on the model's strings
MatchesHttp(s) == s \in {"https://bot/callback", "http://bot/callback"}

CallBackLinkValidate(this) ==
    PushIf(validateString(this.f.callBack, "CallBackLink.callBack", FALSE, Undefined, Undefined),
           ~IsNull(this.f.callBack)
           /\ ~(IsStringValue(this.f.callBack) /\ MatchesHttp(this.f.callBack.s)),
           "CallBackLink.callBack should be absolute URL but is " \o ToText(this.f.callBack))

Workflow(inputData) ==
    populatePlainInput(
        Obj(0, "Workflow",
            [links |-> Null, actions |-> Null, appState |-> Null,
             notificationSubscriptions |-> Arr(<<Str("callStateChange")>>),
             additionalData |-> Null]),
        inputData, {"links", "actions"},
        [p \in Attributes(inputData, {"links", "actions"}) |->
            IF p[1] = "links" THEN CallBackLink(p[2]) ELSE instantiateAction(p[2], Undefined)])

WorkflowValidate(this) ==
    PushIf(validateOptionalTypedObject(this.f.links, "CallBackLink", "Workflow.links",
                                       "CallBackLink")
           ++ validateOptionalString(this.f.appState, "Workflow.appState", FALSE,
                                     CallingModelLimits.AppStateLength.Max, Undefined)
           ++ validateEnumArray(this.f.notificationSubscriptions,
                                CallingModelEnums.NotificationType,
                                "Workflow.notificationSubscriptions", <<>>),
           /\ this.f.notificationSubscriptions.t = "array"
           /\ \A i \in 1..Len(this.f.notificationSubscriptions.items) :
                  ~StrictEq(this.f.notificationSubscriptions.items[i], Str("callStateChange")),
           "Workflow.notificationSubscriptions does not contain subscription to "
               \o "callStateChange notification as it should")
    ++ validateGenericObject(this.f.additionalData, "Workflow.additionalData", TRUE)
    ++ validateActionArray(this.f.actions, "Workflow.actions")

(***************************************************************************)
(* Operation outcomes                                                      *)
(***************************************************************************)
\* The constructor of OperationOutcomeBase, run for an instance of class cls
OperationOutcomeBase(cls, inputData) ==
    populatePlainInput(
        Obj(0, cls, [type |-> Null, id |-> Null, outcome |-> Null, failureReason |-> Null]),
        inputData, NoClasses, NoClass)

OperationOutcomeBaseValidate(this) ==
    validateString(this.f.id, "OperationOutcomeBase.id", FALSE, Undefined, Undefined)
    ++ validateEnum(this.f.type, CallingModelEnums.OutcomeType, "OperationOutcomeBase.type", {})
    ++ validateEnum(this.f.outcome, CallingModelEnums.Outcome, "OperationOutcomeBase.outcome", {})
    ++ validateOptionalString(this.f.failureReason, "OperationOutcomeBase.failureReason",
                              FALSE, Undefined, Undefined)

\* The outcome classes that add no field: class |-> the tag its constructor sets
PlainOutcomeType ==
    [AnswerAppHostedMediaOutcome |-> "answerAppHostedMediaOutcome",
     AnswerOutcome |-> "answerOutcome", HangupOutcome |-> "hangupOutcome",
     PlayPromptOutcome |-> "playPromptOutcome", RejectOutcome |-> "rejectOutcome",
     TransferOutcome |-> "transferOutcome",
     VideoSubscriptionOutcome |-> "videoSubscriptionOutcome",
     WorkflowValidationOutcome |-> "workflowValidationOutcome"]

\* new AnswerOutcome(inputData), new HangupOutcome(inputData), ...: the tag is
\* set after the input was copied, and the input is not copied again
PlainOutcome(cls, inputData) ==
    WithDefaults(OperationOutcomeBase(cls, inputData), [type |-> Str(PlainOutcomeType[cls])])

\* if(this.type != null && this.type != <tag>) errors.push(...)
PushIfOutcomeTypeDiffers(errors, this, tag, className) ==
    PushIf(errors, ~IsNull(this.f.type) /\ ~StrictEq(this.f.type, Str(tag)),
           className \o ".type is set to invalid value " \o ToText(this.f.type))

PlainOutcomeValidate(this) ==
    PushIfOutcomeTypeDiffers(OperationOutcomeBaseValidate(this), this,
                             PlainOutcomeType[this.cls], this.cls)

IsSuccess(this) == ~IsNull(this.f.outcome) /\ StrictEq(this.f.outcome, Str("success"))

PlaceCallOutcome(inputData) ==
    populatePlainInput(
        WithDefaults(OperationOutcomeBase("PlaceCallOutcome", inputData),
                     [type |-> Str("placeCallOutcome"), acceptedModalityTypes |-> Null]),
        inputData, NoClasses, NoClass)

PlaceCallOutcomeValidate(this) ==
    LET e == PushIfOutcomeTypeDiffers(OperationOutcomeBaseValidate(this), this,
                                      "placeCallOutcome", "PlayPromptOutcome")
    IN  IF IsSuccess(this)
        THEN e ++ validateEnumArray(this.f.acceptedModalityTypes, CallingModelEnums.ModalityType,
                                    "PlaceCallOutcome.acceptedModalityTypes", <<>>)
        ELSE e

ChoiceOutcome(inputData) ==
    populatePlainInput(Obj(0, "ChoiceOutcome", [completionReason |-> Null, choiceName |-> Null]),
                       inputData, NoClasses, NoClass)

ChoiceOutcomeValidate(this) ==
    validateEnum(this.f.completionReason,
                 {"initialSilenceTimeout", "inCorrectDtmf", "interDigitTimeout",
                  "speechOptionMatched", "dtmfOptionMatched", "callTerminated",
                  "temporarySystemFailure"},
                 "ChoiceOutcome.completionReason", {})
    ++ validateOptionalString(this.f.choiceName, "ChoiceOutcome.choiceName", FALSE, Undefined, Undefined)

CollectDigitsOutcome(inputData) ==
    populatePlainInput(Obj(0, "CollectDigitsOutcome", [completionReason |-> Null, digits |-> Null]),
                       inputData, NoClasses, NoClass)

CollectDigitsOutcomeValidate(this) ==
    validateEnum(this.f.completionReason,
                 {"initialSilenceTimeout", "interDigitTimeout", "completedStopToneDetected",
                  "callTerminated", "temporarySystemFailure"},
                 "CollectDigitsOutcome.completionReason", {})
    ++ validateOptionalString(this.f.digits, "CollectDigitsOutcome.digits", FALSE, Undefined, Undefined)

RecognizeOutcome(inputData) ==
    populatePlainInput(
        WithDefaults(OperationOutcomeBase("RecognizeOutcome", inputData),
                     [type |-> Str("recognizeOutcome"), choiceOutcome |-> Null,
                      collectDigitsOutcome |-> Null]),
        inputData, {"choiceOutcome", "collectDigitsOutcome"},
        [p \in Attributes(inputData, {"choiceOutcome", "collectDigitsOutcome"}) |->
            IF p[1] = "choiceOutcome" THEN ChoiceOutcome(p[2])
            ELSE CollectDigitsOutcome(p[2])])

RecognizeOutcomeValidate(this) ==
    LET e == PushIfOutcomeTypeDiffers(OperationOutcomeBaseValidate(this), this,
                                      "recognizeOutcome", "RecognizeOutcome")
        isChoiceOutcome == this.f.choiceOutcome.t # "null"
        isCollectDigitsOutcome == this.f.collectDigitsOutcome.t # "null"
        digits == Get(this.f.collectDigitsOutcome, "digits")
        e1 == IF isChoiceOutcome
              THEN e ++ validateTypedObject(this.f.choiceOutcome, "ChoiceOutcome",
                                            "RecognizeOutcome.choiceOutcome", "ChoiceOutcome")
              ELSE e
        e2 == e1 ++ validateTypedObject(this.f.collectDigitsOutcome, "CollectDigitsOutcome",
                                        "RecognizeOutcome.collectDigitsOutcome",
                                        "CollectDigitsOutcome")
        e3 == IF ~IsNull(this.f.collectDigitsOutcome) /\ digits.t = "string" /\ StrLen(digits.s) > 0
              THEN e2 ++ validateDtmfsArray(
                            Arr([k \in 1..StrLen(digits.s) |-> Str(CharsOf(digits.s)[k])]),
                            "RecognizeOutcome.collectDigitsOutcome")
              ELSE e2
    IN  IF ~IsSuccess(this) THEN e
        ELSE IF isChoiceOutcome /\ isCollectDigitsOutcome
        THEN PushIf(e, TRUE, "Both RecognizeOutcome.choiceOutcome and RecognizeOutcome.collectDigitsOutcome are set")
        ELSE IF ~(isChoiceOutcome \/ isCollectDigitsOutcome)
        THEN PushIf(e, TRUE, "Neither RecognizeOutcome.choiceOutcome or RecognizeOutcome.collectDigitsOutcome is set")
        ELSE IF isCollectDigitsOutcome THEN e3 ELSE e1

TranscriptionOutcome(inputData) ==
    populatePlainInput(
        Obj(0, "TranscriptionOutcome",
            [outcome |-> Null, completionReason |-> Null, text |-> Null,
             hasProfanity |-> Bool(FALSE), confidence |-> Str("high")]),
        inputData, NoClasses, NoClass)

TranscriptionOutcomeValidate(this) ==
    LET e == validateBoolean(this.f.hasProfanity, "TranscriptionOutcome.hasProfanity")
             ++ validateEnum(this.f.outcome, CallingModelEnums.Outcome, "TranscriptionOutcome.outcome", {})
             ++ validateEnum(this.f.completionReason,
                             {"successfulTranscription", "exceedsRecordingLimit", "callTerminated",
                              "temporarySystemFailure"},
                             "TranscriptionOutcome.completionReason", {})
             ++ validateEnum(this.f.confidence, {"high", "medium", "low"},
                             "TranscriptionOutcome.confidence", {})
    IN  IF IsSuccess(this)
        THEN e ++ validateString(this.f.text, "TranscriptionOutcome.text", FALSE, Undefined, Undefined)
        ELSE PushIf(e, ~IsNull(this.f.text),
                    "TranscriptionOutcome.text must not be set when outcome is failure")

RecordOutcome(inputData) ==
    populatePlainInput(
        WithDefaults(OperationOutcomeBase("RecordOutcome", inputData),
                     [type |-> Str("recordOutcome"), completionReason |-> Null,
                      lengthOfRecordingInSecs |-> Null, transcription |-> Null]),
        inputData, {"transcription"},
        [p \in Attributes(inputData, {"transcription"}) |-> TranscriptionOutcome(p[2])])

RecordOutcomeValidate(this) ==
    LET e == PushIfOutcomeTypeDiffers(OperationOutcomeBaseValidate(this), this,
                                      "recordOutcome", "RecordOutcome")
             ++ validateEnum(this.f.completionReason,
                             {"initialSilenceTimeout", "maxRecordingTimeout",
                              "completedSilenceDetected", "completedStopToneDetected",
                              "callTerminated", "temporarySystemFailure"},
                             "RecordOutcome.completionReason", {})
    IN  IF IsSuccess(this)
        THEN e ++ validateNumber(this.f.lengthOfRecordingInSecs,
                                 "RecordOutcome.lengthOfRecordingInSecs", Num(1), Undefined)
               ++ validateOptionalTypedObject(this.f.transcription, "TranscriptionOutcome",
                                              "RecordOutcome.transcription", "TranscriptionOutcome")
        ELSE PushIf(e ++ validateOptionalNumber(this.f.lengthOfRecordingInSecs,
                                                "RecordOutcome.lengthOfRecordingInSecs",
                                                Null, Num(0)),
                    ~IsNull(this.f.transcription),
                    "RecordOutcome.transcription must not be set when outcome is failure")

\* instantiateOperationOutcome, had its switch ended with a default branch
\* returning a base-class instance instead of the throw
instantiateOperationOutcomeDefaulting(outcomeData) ==
    LET guard == FactoryGuard(outcomeData, "outcome", "type")
        tag == Get(outcomeData, "type")
        plain == {cls \in DOMAIN PlainOutcomeType : StrictEq(tag, Str(PlainOutcomeType[cls]))}
    IN  IF guard # "" THEN Exc(guard)
        ELSE IF plain # {} THEN PlainOutcome(CHOOSE cls \in plain : TRUE, outcomeData)
        ELSE IF StrictEq(tag, Str("placeCallOutcome")) THEN PlaceCallOutcome(outcomeData)
        ELSE IF StrictEq(tag, Str("recognizeOutcome")) THEN RecognizeOutcome(outcomeData)
        ELSE IF StrictEq(tag, Str("recordOutcome")) THEN RecordOutcome(outcomeData)
        ELSE OperationOutcomeBase("OperationOutcomeBase", outcomeData)

instantiateOperationOutcome(outcomeData) ==
    LET guard == FactoryGuard(outcomeData, "outcome", "type")
        tag == Get(outcomeData, "type")
        plain == {cls \in DOMAIN PlainOutcomeType : StrictEq(tag, Str(PlainOutcomeType[cls]))}
    IN  IF guard # "" THEN Exc(guard)
        ELSE IF plain # {} THEN PlainOutcome(CHOOSE cls \in plain : TRUE, outcomeData)
        ELSE IF StrictEq(tag, Str("placeCallOutcome")) THEN PlaceCallOutcome(outcomeData)
        ELSE IF StrictEq(tag, Str("recognizeOutcome")) THEN RecognizeOutcome(outcomeData)
        ELSE IF StrictEq(tag, Str("recordOutcome")) THEN RecordOutcome(outcomeData)
        ELSE Exc("Unsupported " \o ToText(tag) \o " outcome type in the outcome data")

(***************************************************************************)
(* Notifications                                                           *)
(***************************************************************************)
validateDictionaryOfStrings(v, valueName) ==
    LET first == validateGenericObject(v, valueName, TRUE)
        RECURSIVE props(_)
        props(keys) ==
            IF keys = {} THEN first
            ELSE LET k == CHOOSE x \in keys : TRUE
                 IN  IF k \in {"null", "undefined"}
                     THEN PushIf(props(keys \ {k}), TRUE,
                                 "attribute name [" \o k \o "] in [" \o valueName
                                     \o "] is set to null or undefined")
                     ELSE props(keys \ {k})
                          ++ validateString(Str(k), valueName \o " key " \o k, FALSE, Undefined, Undefined)
                          ++ validateString(v.f[k], valueName \o " value of " \o k, FALSE, Undefined, Undefined)
    IN  IF Len(first.errors) > 0 \/ IsNull(v) THEN first ELSE props(DOMAIN v.f)

\* The constructor of ConversationBase, run for an instance of class cls
ConversationBase(cls, inputData) ==
    populatePlainInput(
        Obj(0, cls, [id |-> Null, appId |-> Null, appState |-> Null, links |-> Null]),
        inputData, NoClasses, NoClass)

ConversationBaseValidate(this) ==
    validateString(this.f.id, "ConversationBase.id", FALSE, Undefined, Undefined)
    ++ validateOptionalString(this.f.appState, "ConversationBase.appState", TRUE,
                              CallingModelLimits.AppStateLength.Max, Undefined)
    ++ validateOptionalString(this.f.appId, "ConversationBase.appId", FALSE, Undefined, Undefined)
    ++ validateDictionaryOfStrings(this.f.links, "ConversationBase.links")

\* The constructor of NotificationBase, run for an instance of class cls
NotificationBase(cls, inputData) ==
    populatePlainInput(
        WithDefaults(ConversationBase(cls, inputData), [notificationType |-> Null]),
        inputData, NoClasses, NoClass)

NotificationBaseValidate(this) ==
    ConversationBaseValidate(this)
    ++ validateEnum(this.f.notificationType, CallingModelEnums.NotificationType,
                    "NotificationBase.notificationType", {})

\* The subclass constructors call super() without the input
CallStateChangeNotification(inputData) ==
    populatePlainInput(
        WithDefaults(NotificationBase("CallStateChangeNotification", Undefined),
                     [notificationType |-> Str("callStateChange"), currentState |-> Null]),
        inputData, NoClasses, NoClass)

CallStateChangeNotificationValidate(this) ==
    PushIf(NotificationBaseValidate(this)
           ++ validateEnum(this.f.currentState,
                           {"idle", "incoming", "establishing", "established", "hold", "unhold",
                            "transferring", "redirecting", "terminating", "terminated"},
                           "CallStateChangeNotification.currentState", {}),
           ~IsNull(this.f.notificationType)
           /\ ~StrictEq(this.f.notificationType, Str("callStateChange")),
           "CallStateChangeNotification.notificationType is set to "
               \o ToText(this.f.notificationType)
               \o " instead of CallingModelEnums.NotificationType.CallStateChange")

RosterParticipant(inputData) ==
    populatePlainInput(
        Obj(0, "RosterParticipant", [identity |-> Null, mediaType |-> Null,
                                     mediaStreamDirection |-> Null]),
        inputData, NoClasses, NoClass)

RosterParticipantValidate(this) ==
    validateString(this.f.identity, "RosterParticipant.identity", FALSE, Undefined, Undefined)
    ++ validateString(this.f.mediaStreamDirection, "RosterParticipant.mediaStreamDirection",
                      FALSE, Undefined, Undefined)
    ++ validateEnum(this.f.mediaType, CallingModelEnums.ModalityType,
                    "RosterParticipant.mediaType", {})

RosterUpdateNotification(inputData) ==
    populatePlainInput(
        WithDefaults(NotificationBase("RosterUpdateNotification", Undefined),
                     [notificationType |-> Str("rosterUpdate"), participants |-> Null]),
        inputData, {"participants"},
        [p \in Attributes(inputData, {"participants"}) |-> RosterParticipant(p[2])])

RosterUpdateNotificationValidate(this) ==
    PushIf(NotificationBaseValidate(this)
           ++ validateTypedObjectArray(this.f.participants, "RosterParticipant",
                                       "RosterUpdateNotification.participants",
                                       "RosterParticipant"),
           ~IsNull(this.f.notificationType)
           /\ ~StrictEq(this.f.notificationType, Str("rosterUpdate")),
           "CallStateChangeNotification.notificationType is set to "
               \o ToText(this.f.notificationType)
               \o " instead of CallingModelEnums.NotificationType.RosterUpdate")

instantiateNotification(notificationData) ==
    LET guard == FactoryGuard(notificationData, "notification", "notificationType")
        tag == Get(notificationData, "notificationType")
    IN  IF guard # "" THEN Exc(guard)
        ELSE IF StrictEq(tag, Str("callStateChange"))
            THEN CallStateChangeNotification(notificationData)
        ELSE IF StrictEq(tag, Str("rosterUpdate")) THEN RosterUpdateNotification(notificationData)
        ELSE Exc("Unsupported " \o ToText(tag) \o " notification type in the notification data")

(***************************************************************************)
(* Dispatch: new <class>(data) and <instance>.validate()                   *)
(***************************************************************************)
New(cls, data) ==
    CASE cls = "AttachmentViewInfo" -> AttachmentViewInfo(data)
      [] cls = "ActivityMessage" -> ActivityMessage(data)
      [] cls = "Activity" -> Activity(data)
      [] cls = "CallBackLink" -> CallBackLink(data)
      [] cls = "Workflow" -> Workflow(data)
      [] cls = "IncomingMessage" -> IncomingMessage(data)
      [] cls = "IncomingAttachment" -> IncomingAttachment(data)
      [] cls = "ContactRelationUpdate" -> ContactRelationUpdate(data)
      [] cls = "ConversationUpdate" -> ConversationUpdate(data)
      [] cls = "WebhookMessage" -> WebhookMessage(data)
      [] cls = "Participant" -> Participant(data)
      [] cls = "Prompt" -> Prompt(data)
      [] cls = "CollectDigits" -> CollectDigits(data)
      [] cls = "RecognitionOption" -> RecognitionOption(data)
      [] cls = "Answer" -> Answer("Answer", data, Undefined)
      [] cls = "AnswerAppHostedMedia" -> AnswerAppHostedMedia(data, Undefined)
      [] cls = "Hangup" -> Hangup(data, Undefined)
      [] cls = "PlaceCall" -> PlaceCall(data, Undefined)
      [] cls = "PlayPrompt" -> PlayPrompt(data, Undefined)
      [] cls = "Recognize" -> Recognize(data, Undefined)
      [] cls = "Record" -> Record(data, Undefined)
      [] cls = "Reject" -> Reject(data, Undefined)
      [] cls = "Transfer" -> Transfer(data, Undefined)
      [] cls = "VideoSubscription" -> VideoSubscription(data, Undefined)
      [] cls \in DOMAIN PlainOutcomeType -> PlainOutcome(cls, data)
      [] cls = "PlaceCallOutcome" -> PlaceCallOutcome(data)
      [] cls = "ChoiceOutcome" -> ChoiceOutcome(data)
      [] cls = "CollectDigitsOutcome" -> CollectDigitsOutcome(data)
      [] cls = "RecognizeOutcome" -> RecognizeOutcome(data)
      [] cls = "TranscriptionOutcome" -> TranscriptionOutcome(data)
      [] cls = "RecordOutcome" -> RecordOutcome(data)
      [] cls = "RosterParticipant" -> RosterParticipant(data)
      [] cls = "CallStateChangeNotification" -> CallStateChangeNotification(data)
      [] cls = "RosterUpdateNotification" -> RosterUpdateNotification(data)

Validate(this) ==
    CASE this.cls = "AttachmentViewInfo" -> AttachmentViewInfoValidate(this)
      [] this.cls = "ActivityMessage" -> ActivityMessageValidate(this)
      [] this.cls = "Activity" -> ActivityValidate(this)
      [] this.cls = "CallBackLink" -> CallBackLinkValidate(this)
      [] this.cls = "Workflow" -> WorkflowValidate(this)
      [] this.cls = "IncomingMessage" -> IncomingMessageValidate(this)
      [] this.cls = "IncomingAttachment" -> IncomingAttachmentValidate(this)
      [] this.cls = "ContactRelationUpdate" -> ContactRelationUpdateValidate(this)
      [] this.cls = "ConversationUpdate" -> ConversationUpdateValidate(this)
      [] this.cls = "WebhookMessage" -> WebhookMessageValidate(this)
      [] this.cls = "Participant" -> ParticipantValidate(this)
      [] this.cls = "Prompt" -> PromptValidate(this)
      [] this.cls = "CollectDigits" -> CollectDigitsValidate(this)
      [] this.cls = "RecognitionOption" -> RecognitionOptionValidate(this)
      [] this.cls = "Answer" -> AnswerValidate(this)
      [] this.cls = "AnswerAppHostedMedia" -> AnswerAppHostedMediaValidate(this)
      [] this.cls = "Hangup" -> HangupValidate(this)
      [] this.cls = "PlaceCall" -> PlaceCallValidate(this)
      [] this.cls = "PlayPrompt" -> PlayPromptValidate(this)
      [] this.cls = "Recognize" -> RecognizeValidate(this)
      [] this.cls = "Record" -> RecordValidate(this)
      [] this.cls = "Reject" -> RejectValidate(this)
      [] this.cls = "Transfer" -> TransferValidate(this)
      [] this.cls = "VideoSubscription" -> VideoSubscriptionValidate(this)
      [] this.cls \in DOMAIN PlainOutcomeType -> PlainOutcomeValidate(this)
      [] this.cls = "PlaceCallOutcome" -> PlaceCallOutcomeValidate(this)
      [] this.cls = "ChoiceOutcome" -> ChoiceOutcomeValidate(this)
      [] this.cls = "CollectDigitsOutcome" -> CollectDigitsOutcomeValidate(this)
      [] this.cls = "RecognizeOutcome" -> RecognizeOutcomeValidate(this)
      [] this.cls = "TranscriptionOutcome" -> TranscriptionOutcomeValidate(this)
      [] this.cls = "RecordOutcome" -> RecordOutcomeValidate(this)
      [] this.cls = "RosterParticipant" -> RosterParticipantValidate(this)
      [] this.cls = "CallStateChangeNotification" -> CallStateChangeNotificationValidate(this)
      [] this.cls = "RosterUpdateNotification" -> RosterUpdateNotificationValidate(this)
      [] OTHER -> Thrown("TypeError: validate() not implemented")

(***************************************************************************)
(* The webhook endpoint: one request body arrives and is turned into the   *)
(* events handed to the bot.                                               *)
(***************************************************************************)
VARIABLES requestData, webhookResult

webhookVars == <<requestData, webhookResult>>

\* The webhook endpoint before any request
WebhookIdle ==
    /\ requestData = Null
    /\ webhookResult = [thrown |-> FALSE, events |-> <<>>, exc |-> "idle"]

\* Largest number of activities in one webhook request
MaxBatch == 2

\* The configured bot id
BotId == "28:bot"

NotRun == [thrown |-> FALSE, events |-> <<>>, exc |-> "not run"]

Merge(f, g) ==
    [k \in (DOMAIN f) \cup (DOMAIN g) |-> IF k \in DOMAIN g THEN g[k] ELSE f[k]]

\* The fields every activity on the wire carries
WireBase(activity, to) ==
    [activity |-> Str(activity), from |-> Str("8:alice"), to |-> Str(to),
     time |-> Str("2024-01-01T00:00:00Z")]

WireMessages ==
    {Options(Merge(Merge(WireBase("message", "28:bot"), [id |-> Str("x")]), Merge(c, t))) :
        c \in {NoProps, [content |-> Str("hi")]},
        t \in {NoProps, [time |-> Str("yesterday")]}}

WireAttachments ==
    {Options(Merge(Merge(WireBase("attachment", to), [id |-> Str("x"), type |-> Str("Image")]), v)) :
        to \in {"28:bot", "19:g@thread.skype"},
        v \in {NoProps,
               [views |-> Arr(<<Options([viewId |-> Str("original"), size |-> Num(1)])>>)]}}

WireContactRelationUpdates ==
    {Options(Merge(Merge(WireBase("contactRelationUpdate", "28:bot"), [action |-> Str(a)]), d)) :
        a \in {"add", "remove", "x"},
        d \in {NoProps, [fromDisplayName |-> Str("hi")]}}

WireConversationUpdates ==
    {Options(Merge(Merge(WireBase("conversationUpdate", "19:g@thread.skype"), Merge(h, t)), m)) :
        h \in {NoProps, [historyDisclosed |-> Bool(TRUE)]},
        t \in {NoProps, [topicName |-> Str("hi")]},
        m \in {NoProps, [membersAdded |-> Arr(<<Str("28:bot"), Str("8:alice")>>)],
               [membersAdded |-> Arr(<<Str("28:bot2")>>),
                membersRemoved |-> Arr(<<Str("28:bot")>>)]}}

\* ConversationUpdates whose member lists are not lists of strings
WireConversationUpdatesOfBadMembers ==
    {Options(Merge(WireBase("conversationUpdate", "19:g@thread.skype"),
                   [historyDisclosed |-> Bool(TRUE), topicName |-> Str("hi"),
                    membersAdded |-> Arr(<<Str("8:alice"), Num(5)>>)])),
     Options(Merge(WireBase("conversationUpdate", "19:g@thread.skype"),
                   [topicName |-> Str("hi"), membersRemoved |-> Str("8:alice")]))}

WireMalformed ==
    {Null, Str("x"), Arr(<<>>), Options([from |-> Str("8:alice")]),
     Options(WireBase("typing", "28:bot"))}

WireActivities ==
    WireMessages \cup WireAttachments \cup WireContactRelationUpdates
    \cup WireConversationUpdates \cup WireConversationUpdatesOfBadMembers \cup WireMalformed

\* The request bodies the endpoint may receive
RequestBodies ==
    {Null, Str("x"), Options(WireBase("message", "28:bot"))}
    \cup {Arr(items) : items \in UNION {[1..n -> WireActivities] : n \in 0..MaxBatch}}

\* MessagingServiceClientV2.processRequest -> processRequestData
ProcessRequest ==
    /\ webhookResult = NotRun
    /\ webhookResult' = processRequestData(BotId, requestData)
    /\ UNCHANGED requestData

\* The events of a result, without the position each was derived from
EventsOf(result) == [k \in 1..Len(result.events) |-> result.events[k].ev]

(***************************************************************************)
(* Properties of the webhook endpoint                                      *)
(***************************************************************************)
Processed == webhookResult # NotRun

\* new WebhookMessage(requestData) threw
ConstructionThrows == IsExc(WebhookMessage(requestData))

\* The wrapper was built and its validate() returned a list of errors
ValidationReports ==
    /\ ~ConstructionThrows
    /\ ~Validate(WebhookMessage(requestData)).thrown

\* The batch passed construction and validation
Accepted ==
    /\ ValidationReports
    /\ Validate(WebhookMessage(requestData)).errors = <<>>

\* The typed activities of an accepted batch
Activities == WebhookMessage(requestData).f.activities.items

\* The events of a result that were derived from the activity at position i
EventsFrom(result, i) ==
    LET at == {k \in 1..Len(result.events) : result.events[k].src = i}
        RECURSIVE pick(_)
        pick(k) == IF k = 0 THEN <<>>
                   ELSE IF k \in at THEN Append(pick(k - 1), result.events[k].ev)
                   ELSE pick(k - 1)
    IN  pick(Len(result.events))

TypesOf(events) == [k \in 1..Len(events) |-> events[k].type]

\* C3: when building the wrapper throws, or its validate() reports at least
\* one error, processRequestData returns exactly one event, of type 'error',
\* and no typed event for any activity of the batch.
RejectedBatchYieldsOneError ==
    (Processed /\ (ConstructionThrows
                   \/ (ValidationReports
                       /\ Len(Validate(WebhookMessage(requestData)).errors) >= 1)))
    => /\ ~webhookResult.thrown
       /\ TypesOf(EventsOf(webhookResult)) = <<"error">>
       /\ webhookResult.events[1].src = 0

\* A batch of two activities, the first individually valid and the second
\* not, was processed and answered with one error event.
RejectedBatchWitness ==
    /\ Processed /\ ValidationReports
    /\ requestData.t = "array" /\ Len(requestData.items) = 2
    /\ Validate(Activities[1]).errors = <<>>
    /\ Validate(Activities[2]).errors # <<>>
    /\ TypesOf(EventsOf(webhookResult)) = <<"error">>

\* The request body without the activity at position i
WithoutActivity(i) ==
    Arr([k \in 1..(Len(requestData.items) - 1) |->
            requestData.items[IF k < i THEN k ELSE k + 1]])

\* C4: in an accepted batch, an activity whose conversion throws yields
\* exactly one error event naming its activity kind, and every other
\* activity yields the events it yields when the throwing one is absent.
ConversionFailureIsScoped ==
    (Processed /\ Accepted) =>
        \A i \in 1..Len(Activities) :
            SwitchActivity(BotId, Activities[i]).thrown =>
                /\ ~webhookResult.thrown
                /\ EventsFrom(webhookResult, i)
                     = <<fromError("failed to convert " \o ToText(Activities[i].f.activity)
                                   \o " to an event, error: "
                                   \o SwitchActivity(BotId, Activities[i]).exc)>>
                /\ \A j \in 1..Len(Activities) :
                      j # i =>
                        EventsFrom(webhookResult, j)
                          = EventsFrom(processRequestData(BotId, WithoutActivity(i)),
                                       IF j < i THEN j ELSE j - 1)

\* A conversion threw at position 1 and the message at position 2 was still
\* delivered.
ConversionFailureWitness ==
    /\ Processed /\ Accepted /\ Len(Activities) = 2
    /\ SwitchActivity(BotId, Activities[1]).thrown
    /\ TypesOf(EventsOf(webhookResult)) = <<"error", "message">>

\* C5: the events of an accepted batch come in the order of the activities
\* they were derived from, those of one activity next to each other.
EventsFollowActivityOrder ==
    (Processed /\ Accepted) =>
        \A k, l \in 1..Len(webhookResult.events) :
            k < l => webhookResult.events[k].src <= webhookResult.events[l].src

\* Two activities of different kinds each produced an event.
ActivityOrderWitness ==
    /\ Processed /\ Accepted
    /\ TypesOf(EventsOf(webhookResult)) = <<"attachment", "message">>
    /\ webhookResult.events[1].src = 1 /\ webhookResult.events[2].src = 2

\* A ConversationUpdate on the wire with valid from, to and time, at least
\* one optional field set, and member lists that are lists of strings
WellFormedConversationUpdate(raw) ==
    /\ raw \in WireConversationUpdates
    /\ (DOMAIN raw.f) \cap {"historyDisclosed", "topicName", "membersAdded", "membersRemoved"} # {}

\* A request made of well-formed ConversationUpdates only
ConversationUpdatesOnly ==
    /\ requestData.t = "array" /\ Len(requestData.items) >= 1
    /\ \A i \in 1..Len(requestData.items) : WellFormedConversationUpdate(requestData.items[i])

Members(raw, key) == IF key \in DOMAIN raw.f THEN raw.f[key].items ELSE <<>>

\* The kinds of event a ConversationUpdate fans out to, in the documented order
FanOutKinds(raw) ==
    (IF "historyDisclosed" \in DOMAIN raw.f THEN <<"history">> ELSE <<>>)
    \o (IF "topicName" \in DOMAIN raw.f THEN <<"topic">> ELSE <<>>)
    \o [k \in 1..Len(Members(raw, "membersAdded")) |-> "added"]
    \o [k \in 1..Len(Members(raw, "membersRemoved")) |-> "removed"]

KindOf(type) ==
    CASE type = "threadHistoryDisclosedUpdate" -> "history"
      [] type = "threadTopicUpdated" -> "topic"
      [] type \in {"threadBotAdded", "threadAddMember"} -> "added"
      [] type \in {"threadBotRemoved", "threadRemoveMember"} -> "removed"
      [] OTHER -> type

\* The spec's example: two members added, one of them the bot, and a topic
ExampleConversationUpdate ==
    Options(Merge(WireBase("conversationUpdate", "19:g@thread.skype"),
                  [membersAdded |-> Arr(<<Str("28:bot"), Str("8:alice")>>),
                   topicName |-> Str("hi")]))

\* C6: every well-formed ConversationUpdate yields one event per optional
\* field set and per member, in the order history, topic, members added,
\* members removed; the example yields topic-changed, bot-added,
\* member-added.
ConversationUpdateFansOut ==
    (Processed /\ ConversationUpdatesOnly) =>
        /\ ~webhookResult.thrown
        /\ \A i \in 1..Len(requestData.items) :
              LET types == TypesOf(EventsFrom(webhookResult, i))
              IN  /\ [k \in 1..Len(types) |-> KindOf(types[k])] = FanOutKinds(requestData.items[i])
                  /\ requestData.items[i] = ExampleConversationUpdate
                        => types = <<"threadTopicUpdated", "threadBotAdded", "threadAddMember">>

\* The types the member events of a ConversationUpdate must have: a bot
\* event exactly for the member id that equals the bot id
MemberEventTypes(raw) ==
    [k \in 1..Len(Members(raw, "membersAdded")) |->
        IF Members(raw, "membersAdded")[k] = Str(BotId)
        THEN "threadBotAdded" ELSE "threadAddMember"]
    \o [k \in 1..Len(Members(raw, "membersRemoved")) |->
        IF Members(raw, "membersRemoved")[k] = Str(BotId)
        THEN "threadBotRemoved" ELSE "threadRemoveMember"]

IsMemberEventType(type) ==
    type \in {"threadBotAdded", "threadAddMember", "threadBotRemoved", "threadRemoveMember"}

\* C7: the event of an added (removed) member is threadBotAdded
\* (threadBotRemoved) exactly when the member id equals the bot id, and
\* threadAddMember (threadRemoveMember) for any other id.
BotEventIffMemberIsBot ==
    (Processed /\ ConversationUpdatesOnly) =>
        \A i \in 1..Len(requestData.items) :
            SelectSeq(TypesOf(EventsFrom(webhookResult, i)), IsMemberEventType)
                = MemberEventTypes(requestData.items[i])

\* C8: every ContactRelationUpdate that passes validate() yields exactly one
\* event, contactAdded for 'add' and contactRemoved for 'remove', whose
\* reply target is the sender.
ContactRelationUpdateYieldsOneEvent ==
    (Processed /\ Accepted) =>
        \A i \in 1..Len(Activities) :
            Activities[i].cls = "ContactRelationUpdate" =>
                LET events == EventsFrom(webhookResult, i)
                IN  /\ Len(events) = 1
                    /\ events[1].type = (IF Activities[i].f.action = Str("add")
                                         THEN "contactAdded" ELSE "contactRemoved")
                    /\ events[1].replyTo = Activities[i].f.from

\* C9: validate() of the wrapper built from a request returns a list of
\* errors and never throws, so processRequestData never throws either.
ValidateNeverThrows ==
    (Processed /\ ~ConstructionThrows) =>
        /\ ~Validate(WebhookMessage(requestData)).thrown
        /\ ~webhookResult.thrown

\* The events one activity added are all typed, or are one error event
AllTypedOrOneError(added) ==
    \/ \A k \in 1..Len(added) : added[k].type # "error"
    \/ Len(added) = 1 /\ added[1].type = "error"

\* The request items that are ConversationUpdates on the wire
ConversationUpdateItems ==
    IF requestData.t # "array" THEN {}
    ELSE {i \in 1..Len(requestData.items) :
            requestData.items[i] \in WireConversationUpdates
                                     \cup WireConversationUpdatesOfBadMembers}

VARIABLES actions, actionErrors

actionVars == <<actions, actionErrors>>

\* Largest number of entries of an action list
MaxActions == 3

\* The action objects the bot holds: each has its own identity (its index).
\* They are made by instantiateAction unless noted otherwise.
ActionPool ==
    LET id == [operationId |-> Str("x")]
        made == <<
            instantiateAction(Options(Merge(id, [action |-> Str("answer")])), Undefined),
            instantiateAction(Options(Merge(id, [action |-> Str("answerAppHostedMedia"),
                                                 mediaConfiguration |-> Options(NoProps)])), Undefined),
            instantiateAction(Options(Merge(id,
                [action |-> Str("placeCall"), appId |-> Str("x"),
                 source |-> Options([identity |-> Str("28:bot"), originator |-> Bool(TRUE)]),
                 target |-> Options([identity |-> Str("8:alice")])])), Undefined),
            instantiateAction(Options(Merge(id,
                [action |-> Str("videoSubscription"), socketId |-> Num(1),
                 participantIdentity |-> Str("8:alice"), videoModality |-> Str("video")])), Undefined),
            instantiateAction(Options(Merge(id,
                [action |-> Str("playPrompt"),
                 prompts |-> Arr(<<Options([value |-> Str("hi")])>>)])), Undefined),
            instantiateAction(Options(Merge(id, [action |-> Str("record")])), Undefined),
            instantiateAction(Options(Merge(id,
                [action |-> Str("recognize"),
                 collectDigits |-> Options([maxNumberOfDtmfs |-> Num(1)])])), Undefined),
            instantiateAction(Options(Merge(id,
                [action |-> Str("transfer"),
                 target |-> Options([identity |-> Str("8:alice")])])), Undefined),
            instantiateAction(Options(Merge(id, [action |-> Str("hangup")])), Undefined),
            instantiateAction(Options(Merge(id, [action |-> Str("reject")])), Undefined),
            \* a second hangup object, equal to the first in every field
            instantiateAction(Options(Merge(id, [action |-> Str("hangup")])), Undefined),
            \* a standalone action
            instantiateAction(Options(Merge(id, [action |-> Str("reject")])), Bool(TRUE)),
            \* a standalone action of a positive phase
            instantiateAction(Options(Merge(id,
                [action |-> Str("playPrompt"),
                 prompts |-> Arr(<<Options([value |-> Str("hi")])>>)])), Bool(TRUE)),
            \* a playPrompt without prompts: it fails its own validate()
            instantiateAction(Options(Merge(id, [action |-> Str("playPrompt")])), Undefined),
            \* new Answer({action: 'hangup', ...}): the input overrides the tag
            Answer("Answer", Options(Merge(id, [action |-> Str("hangup")])), Undefined) >>
    IN  [i \in 1..Len(made) |-> [made[i] EXCEPT !.n = i]]

NotValidated == Thrown("not run")

\* An action list nobody has touched
ActionsIdle ==
    /\ actions = Null
    /\ actionErrors = Thrown("idle")

\* workflow.actions.push(action)
PushAction(i) ==
    /\ actionErrors = NotValidated
    /\ Len(actions.items) < MaxActions
    /\ actions' = Arr(Append(actions.items, ActionPool[i]))
    /\ UNCHANGED actionErrors

\* Workflow.validate -> validateActionArray(context, this.actions, 'Workflow.actions')
ValidateActions ==
    /\ actionErrors = NotValidated
    /\ actionErrors' = validateActionArray(actions, "Workflow.actions")
    /\ UNCHANGED actions

(***************************************************************************)
(* Properties of the action list                                           *)
(***************************************************************************)
ActionsValidated == actionErrors # NotValidated /\ actionErrors # Thrown("idle")

\* Every element of the list passes its own validate()
EachActionValid ==
    \A i \in 1..Len(actions.items) :
        /\ ~Validate(actions.items[i]).thrown
        /\ Validate(actions.items[i]).errors = <<>>

\* No object is in the list twice
ActionsDistinct ==
    \A i, j \in 1..Len(actions.items) : i # j => actions.items[i].n # actions.items[j].n

\* The phase number of each action kind
PhaseNumber ==
    [reject |-> -2, answer |-> 1, answerAppHostedMedia |-> 1, placeCall |-> 1,
     videoSubscription |-> 1, playPrompt |-> 2, record |-> 2, recognize |-> 2,
     transfer |-> 2, hangup |-> 3]

PhaseAt(i) == PhaseNumber[actions.items[i].f.action.s]

\* Some element has a lower phase than the element just before it, or a
\* phase whose sign differs from that of the first element's
OutOfPhase ==
    \E i \in 2..Len(actions.items) :
        \/ PhaseAt(i) < PhaseAt(i - 1)
        \/ (PhaseAt(i) > 0) # (PhaseAt(1) > 0)

OrderingMessages ==
    {"Actions " \o a \o " and " \o b \o " are not in proper order in Workflow.actions" :
        a \in CallingModelEnums.ActionType, b \in CallingModelEnums.ActionType}

ReportsOrderingError ==
    \E k \in 1..Len(actionErrors.errors) : actionErrors.errors[k] \in OrderingMessages

\* C1, as stated: for every list of two or more actions that each pass
\* their own validate(), a phase-ordering error is reported if and only if
\* the list is out of phase.
OrderingErrorIffOutOfPhase ==
    (ActionsValidated /\ Len(actions.items) >= 2 /\ EachActionValid)
        => (ReportsOrderingError <=> OutOfPhase)

\* C1, amended: the same for every list of two or more pairwise distinct
\* action objects that each pass their own validate().
OrderingErrorIffOutOfPhaseOfDistinct ==
    (ActionsValidated /\ Len(actions.items) >= 2 /\ EachActionValid /\ ActionsDistinct)
        => (ReportsOrderingError <=> OutOfPhase)

\* A list of distinct valid actions that ascends in phase number but leaves
\* the sign of its first element was validated, and the error was reported.
SignCrossingReportedWitness ==
    /\ ActionsValidated /\ Len(actions.items) >= 2 /\ EachActionValid /\ ActionsDistinct
    /\ \A i \in 2..Len(actions.items) : PhaseAt(i) >= PhaseAt(i - 1)
    /\ OutOfPhase
    /\ ReportsOrderingError

\* A list of two or more actions that each pass their own validate()
ValidList == ActionsValidated /\ Len(actions.items) >= 2 /\ EachActionValid

\* validateActionArray returned no error / at least one error
ActionsAccepted ==
    ActionsValidated /\ ~actionErrors.thrown /\ actionErrors.errors = <<>>
ActionsRejected ==
    ActionsValidated /\ ~actionErrors.thrown /\ Len(actionErrors.errors) > 0

IsStandAlone(i) == StrictEq(actions.items[i].f.isStandAloneAction, Bool(TRUE))
HasStandAlone == \E i \in 1..Len(actions.items) : IsStandAlone(i)

StandaloneMessages ==
    {"Standalone action of type " \o a
        \o " must not be specified with other actions in Workflow.actions" :
        a \in CallingModelEnums.ActionType}

\* C11: every list of two or more individually valid actions that contains
\* a standalone action is rejected with at least one error, so a list with
\* a standalone action is accepted only when that action is its sole element.
StandaloneOnlyAlone ==
    /\ (ValidList /\ HasStandAlone) => ActionsRejected
    /\ (ActionsAccepted /\ HasStandAlone) => Len(actions.items) = 1

\* A list of distinct valid actions with a standalone one was validated and
\* the standalone rule is the only rule that reported.
StandaloneRejectedWitness ==
    /\ ValidList /\ ActionsDistinct /\ HasStandAlone
    /\ ActionsRejected
    /\ \A k \in 1..Len(actionErrors.errors) : actionErrors.errors[k] \in StandaloneMessages

\* The action kind of an element: the value of its action field
KindAt(i) == actions.items[i].f.action
RepeatsKind ==
    \E i, j \in 1..Len(actions.items) : i # j /\ StrictEq(KindAt(i), KindAt(j))

\* C12: every list of two or more individually valid actions in which two
\* elements have the same action kind is rejected with at least one error,
\* and every accepted list has pairwise distinct action kinds.
RepeatedKindIsRejected ==
    /\ (ValidList /\ RepeatsKind) => ActionsRejected
    /\ ActionsAccepted => ~RepeatsKind

\* Two distinct valid objects of one kind were validated together and the
\* repeated kind is all that was reported.
RepeatedKindWitness ==
    /\ ValidList /\ ActionsDistinct /\ RepeatsKind
    /\ actionErrors.errors =
          <<"Some action types are used multiple times in the Workflow.actions">>

HasKind(kind) ==
    \E i \in 1..Len(actions.items) : StrictEq(KindAt(i), Str(kind))

\* C13: every list of two or more individually valid actions that holds
\* both an answer and a placeCall, in any positions, is rejected with at
\* least one error.
AnswerExcludesPlaceCall ==
    (ValidList /\ HasKind("answer") /\ HasKind("placeCall")) => ActionsRejected

\* A placeCall followed later by an answer was validated and the exclusion
\* is all that was reported.
PlaceCallThenAnswerWitness ==
    /\ ValidList
    /\ \E i, j \in 1..Len(actions.items) :
          i < j /\ StrictEq(KindAt(i), Str("placeCall")) /\ StrictEq(KindAt(j), Str("answer"))
    /\ actionErrors.errors =
          <<"Answer and PlaceCall must not appear together in Workflow.actions">>

\* C14, as stated: every accepted list of two or more actions has strictly
\* increasing phase numbers, from a phase-1 action to the phase-3 hangup.
AcceptedStrictlyAscends ==
    (ActionsAccepted /\ Len(actions.items) >= 2)
        => /\ \A i \in 2..Len(actions.items) : PhaseAt(i - 1) < PhaseAt(i)
           /\ PhaseAt(1) = 1
           /\ PhaseAt(Len(actions.items)) = 3

\* C14, amended: every accepted list of two or more actions has
\* non-decreasing phase numbers in list order, all of them positive, and
\* two of its actions that share a phase are of different kinds.
AcceptedNeverDescends ==
    (ActionsAccepted /\ Len(actions.items) >= 2)
        => /\ \A i \in 2..Len(actions.items) : PhaseAt(i - 1) <= PhaseAt(i)
           /\ \A i \in 1..Len(actions.items) : PhaseAt(i) > 0
           /\ \A i, j \in 1..Len(actions.items) :
                  (i # j /\ PhaseAt(i) = PhaseAt(j)) => ~StrictEq(KindAt(i), KindAt(j))

\* An accepted list that holds two actions of one phase and no hangup
SamePhaseAcceptedWitness ==
    /\ ActionsAccepted /\ Len(actions.items) >= 2
    /\ \E i \in 2..Len(actions.items) : PhaseAt(i - 1) = PhaseAt(i)
    /\ ~HasKind("hangup")

\* Some element is a reject action: of class Reject or of kind reject
HasReject ==
    \E i \in 1..Len(actions.items) :
        actions.items[i].cls = "Reject" \/ StrictEq(KindAt(i), Str("reject"))

\* C28: every list of two or more individually valid actions that contains a
\* reject action, at any position, yields at least one error, so a list with
\* a reject action is accepted only when that action is its sole element.
RejectOnlyAlone ==
    /\ (ValidList /\ HasReject) => ActionsRejected
    /\ (ActionsAccepted /\ HasReject) => Len(actions.items) = 1

\* A reject that is not standalone came after a distinct action of another
\* kind, and only the phase ordering reported.
RejectAfterOtherWitness ==
    /\ ValidList /\ ActionsDistinct /\ ~HasStandAlone /\ ~RepeatsKind
    /\ \E i \in 2..Len(actions.items) : StrictEq(KindAt(i), Str("reject"))
    /\ ActionsRejected
    /\ \A k \in 1..Len(actionErrors.errors) : actionErrors.errors[k] \in OrderingMessages

\* The number of errors of validateActionArray that are among messages
ErrorsAmong(messages) ==
    Cardinality({k \in 1..Len(actionErrors.errors) : actionErrors.errors[k] \in messages})

\* The positions whose element is out of phase with its predecessor or with
\* the sign of the first element
OutOfPhasePositions ==
    {i \in 2..Len(actions.items) :
        \/ PhaseAt(i) < PhaseAt(i - 1)
        \/ (PhaseAt(i) > 0) # (PhaseAt(1) > 0)}

StandalonePositions == {i \in 1..Len(actions.items) : IsStandAlone(i)}

UniquenessMessages == {"Some action types are used multiple times in the Workflow.actions"}
ExclusionMessages == {"Answer and PlaceCall must not appear together in Workflow.actions"}

Indicator(violated) == IF violated THEN 1 ELSE 0

\* The number of sequence rules the list violates
ViolatedRules ==
    Indicator(HasStandAlone) + Indicator(RepeatsKind)
    + Indicator(HasKind("answer") /\ HasKind("placeCall")) + Indicator(OutOfPhase)

\* C25, as stated: for every list of two or more individually valid actions
\* each violated sequence rule contributes exactly one error, whichever other
\* rules are violated, so the number of errors is the number of violated rules.
OneErrorPerViolatedRule ==
    ValidList
        => /\ ~actionErrors.thrown
           /\ ErrorsAmong(StandaloneMessages) = Indicator(HasStandAlone)
           /\ ErrorsAmong(UniquenessMessages) = Indicator(RepeatsKind)
           /\ ErrorsAmong(ExclusionMessages)
                 = Indicator(HasKind("answer") /\ HasKind("placeCall"))
           /\ ErrorsAmong(OrderingMessages) = Indicator(OutOfPhase)
           /\ Len(actionErrors.errors) = ViolatedRules

\* C25, amended: for every list of two or more pairwise distinct, individually
\* valid action objects, whichever other rules are violated, there is one
\* error for each standalone action, one for a repeated kind, one for answer
\* with placeCall and one for each element out of phase, and no other error.
OneErrorPerViolation ==
    (ValidList /\ ActionsDistinct)
        => /\ ~actionErrors.thrown
           /\ ErrorsAmong(StandaloneMessages) = Cardinality(StandalonePositions)
           /\ ErrorsAmong(UniquenessMessages) = Indicator(RepeatsKind)
           /\ ErrorsAmong(ExclusionMessages)
                 = Indicator(HasKind("answer") /\ HasKind("placeCall"))
           /\ ErrorsAmong(OrderingMessages) = Cardinality(OutOfPhasePositions)
           /\ Len(actionErrors.errors)
                 = Cardinality(StandalonePositions) + Indicator(RepeatsKind)
                   + Indicator(HasKind("answer") /\ HasKind("placeCall"))
                   + Cardinality(OutOfPhasePositions)

\* A list of distinct valid actions that violates two rules, one of them at
\* two places, was validated.
TwoRulesThreeErrorsWitness ==
    /\ ValidList /\ ActionsDistinct
    /\ HasStandAlone
    /\ Cardinality(OutOfPhasePositions) = 2
    /\ Len(actionErrors.errors) = 3

(***************************************************************************)
(* Instantiating and validating one model object                           *)
(***************************************************************************)
VARIABLES modelFamily, modelData, modelVia, modelInstance, modelErrors

modelVars == <<modelFamily, modelData, modelVia, modelInstance, modelErrors>>

NotBuilt == Exc("not built")

\* No model object is being built
ModelIdle ==
    /\ modelFamily = "none"
    /\ modelData = Null
    /\ modelVia = "idle"
    /\ modelInstance = NotBuilt
    /\ modelErrors = Thrown("idle")

Families == {"activity", "action", "outcome", "notification"}

\* The discriminant field of each family
TagKey ==
    [activity |-> "activity", action |-> "action", outcome |-> "type",
     notification |-> "notificationType"]

\* tag |-> the class the family's factory constructs for it
Registered ==
    [activity |->
        [attachment |-> "IncomingAttachment", contactRelationUpdate |-> "ContactRelationUpdate",
         conversationUpdate |-> "ConversationUpdate", message |-> "IncomingMessage"],
     action |->
        [answer |-> "Answer", answerAppHostedMedia |-> "AnswerAppHostedMedia",
         hangup |-> "Hangup", placeCall |-> "PlaceCall", playPrompt |-> "PlayPrompt",
         recognize |-> "Recognize", record |-> "Record", reject |-> "Reject",
         transfer |-> "Transfer", videoSubscription |-> "VideoSubscription"],
     outcome |->
        [answerAppHostedMediaOutcome |-> "AnswerAppHostedMediaOutcome",
         answerOutcome |-> "AnswerOutcome", hangupOutcome |-> "HangupOutcome",
         placeCallOutcome |-> "PlaceCallOutcome", playPromptOutcome |-> "PlayPromptOutcome",
         recognizeOutcome |-> "RecognizeOutcome", recordOutcome |-> "RecordOutcome",
         rejectOutcome |-> "RejectOutcome", transferOutcome |-> "TransferOutcome",
         videoSubscriptionOutcome |-> "VideoSubscriptionOutcome",
         workflowValidationOutcome |-> "WorkflowValidationOutcome"],
     notification |->
        [callStateChange |-> "CallStateChangeNotification",
         rosterUpdate |-> "RosterUpdateNotification"]]

ClassesOf(family) == {Registered[family][t] : t \in DOMAIN Registered[family]}

\* The tag of a class: the value its factory dispatches to it on
TagOf(family, cls) == CHOOSE t \in DOMAIN Registered[family] : Registered[family][t] = cls

\* Fields every member of the family accepts, holding well-formed values
CommonFields ==
    [activity |-> [from |-> Str("8:alice"), to |-> Str("28:bot"),
                   time |-> Str("2024-01-01T00:00:00Z"), id |-> Str("1"),
                   content |-> Str("hi"), action |-> Str("add")],
     action |-> [operationId |-> Str("x")],
     outcome |-> [id |-> Str("x"), outcome |-> Str("failure")],
     notification |-> [id |-> Str("x"), currentState |-> Str("idle")]]

\* What a caller may hand to a factory or to a constructor of the family
ModelInputs(family) ==
    {Null, Undefined, Str("answer"), Num(5), Bool(TRUE), Arr(<<>>),
     Arr(<<Obj(0, "", CommonFields[family])>>),
     Obj(0, "", CommonFields[family])}
    \cup {SetProp(Obj(0, "", CommonFields[family]), TagKey[family], tag) :
            tag \in {Null, Undefined, Num(5), Str(""), Str("bogus"), Str("Answer")}
                    \cup {Str(t) : t \in DOMAIN Registered[family]}}

Factory(family, data) ==
    CASE family = "activity" -> instantiateIncomingActivity(data)
      [] family = "action" -> instantiateAction(data, Undefined)
      [] family = "outcome" -> instantiateOperationOutcome(data)
      [] family = "notification" -> instantiateNotification(data)

\* instance = instantiateX(data), the error caught if it throws
Instantiate ==
    /\ modelVia = "none"
    /\ modelVia' = "factory"
    /\ modelInstance' = Factory(modelFamily, modelData)
    /\ UNCHANGED <<modelFamily, modelData, modelErrors>>

\* instance = new cls(data)
Construct(cls) ==
    /\ modelVia = "none"
    /\ modelVia' = "constructor"
    /\ modelInstance' = New(cls, modelData)
    /\ UNCHANGED <<modelFamily, modelData, modelErrors>>

\* errors = instance.validate(context)
ValidateInstance ==
    /\ modelVia \in {"factory", "constructor", "reconstructed"}
    /\ ~IsExc(modelInstance)
    /\ modelErrors = NotValidated
    /\ modelErrors' = Validate(modelInstance)
    /\ UNCHANGED <<modelFamily, modelData, modelVia, modelInstance>>

(***************************************************************************)
(* Properties of the factories and of the discriminant checks              *)
(***************************************************************************)
ViaFactory == modelVia = "factory"

Discriminant(data) == Get(data, TagKey[modelFamily])

\* The input is a plain object whose discriminant is one of the family's tags
Recognised ==
    /\ modelData.t = "object"
    /\ Discriminant(modelData).t = "string"
    /\ Discriminant(modelData).s \in DOMAIN Registered[modelFamily]

\* C2: each of the four factories throws for null input, for input that is
\* not an object or is an array, for a missing or null discriminant and for a
\* discriminant outside the family's set; for a recognized discriminant it
\* returns an instance of exactly the class registered for that value, never a
\* default or base-class instance.
FactoryThrowsOrBuildsRegisteredClass ==
    ViaFactory =>
        IF Recognised
        THEN /\ modelInstance.t = "object"
             /\ modelInstance.cls = Registered[modelFamily][Discriminant(modelData).s]
        ELSE IsExc(modelInstance)

\* A factory was handed an object with an unknown discriminant, and threw
FactoryRejectsUnknownTagWitness ==
    /\ ViaFactory
    /\ modelData.t = "object"
    /\ Discriminant(modelData) = Str("bogus")
    /\ modelInstance = Exc("Unsupported bogus " \o modelFamily \o
                           (IF modelFamily = "action" THEN "" ELSE " type")
                           \o " in the " \o modelFamily \o " data")

Validated == ~IsExc(modelInstance) /\ modelErrors # NotValidated /\ modelErrors # Thrown("idle")

CarriesOwnTag ==
    StrictEq(Discriminant(modelInstance), Str(TagOf(modelFamily, modelInstance.cls)))

\* C10: an instance whose discriminant field differs from the tag of its own
\* class does not validate cleanly: validate() returns at least one error
\* (a validate() that throws instead of returning is the matter of C9).
MismatchedTagIsReported ==
    Validated /\ ~CarriesOwnTag => modelErrors.thrown \/ Len(modelErrors.errors) > 0

(***************************************************************************)
(* One instance of a class: the caller constructs it from an input map,    *)
(* validates it, and may construct a second instance from the first.       *)
(* modelFamily holds the name of the class.                                *)
(***************************************************************************)
\* The maps with the field key left out or set to one of values
OptionalField(key, values) == {NoProps} \cup {(key :> v) : v \in values}

PromptInputs ==
    {Options(Merge(Merge(value, fileUri), silence)) :
        value \in OptionalField("value", {Null, Str(""), Str(" "), Str("hi"), Num(5)}),
        fileUri \in OptionalField("fileUri", {Null, Str("x")}),
        silence \in OptionalField("silenceLengthInMilliSeconds",
                                  {Null, Num(-1), Num(0), Num(30), Num(500)})}

\* Recognition options as a caller writes them
OptionInputs ==
    {Options([name |-> Str("a"), dtmfVariation |-> Str("1")]),
     Options([name |-> Str("b"), dtmfVariation |-> Str("1")]),
     Options([name |-> Str("b"), dtmfVariation |-> Str("2")]),
     Options([name |-> Str("a"), dtmfVariation |-> StringObject("1", 7)]),
     Options([name |-> Str("b"), dtmfVariation |-> StringObject("1", 8)]),
     Options([name |-> Str("a"), speechVariation |-> Arr(<<Str("yes")>>)]),
     Options([name |-> Str("b"), speechVariation |-> Arr(<<Str("no"), Str("yes")>>)]),
     Options([name |-> Str("b"), speechVariation |-> Arr(<<Str("no"), Str("nope")>>)]),
     Options([name |-> Str("c"), speechVariation |-> Arr(<<Str("yes"), Str("yes")>>)]),
     Options([name |-> Str("d"), speechVariation |-> Arr(<<Str("no")>>),
              dtmfVariation |-> Str("1")]),
     Options([name |-> Str("e")])}

RecognizeInputs ==
    {Options(Merge([operationId |-> Str("x")], choices)) :
        choices \in {[collectDigits |-> Options([maxNumberOfDtmfs |-> Num(1)])]}
                   \cup {[choices |-> Arr(<<a>>)] : a \in OptionInputs}
                   \cup {[choices |-> Arr(<<a, b>>)] : a \in OptionInputs, b \in OptionInputs}}

\* Outcomes as the Calling service reports them
OutcomeBaseInputs ==
    {Merge([id |-> Str("x")], Merge(outcome, failureReason)) :
        outcome \in OptionalField("outcome", {Str("success"), Str("failure")}),
        failureReason \in OptionalField("failureReason", {Str("hi")})}

PlaceCallOutcomeInputs ==
    {Options(Merge(base, accepted)) :
        base \in OutcomeBaseInputs,
        accepted \in OptionalField("acceptedModalityTypes",
                                   {Null, Arr(<<Str("audio")>>), Arr(<<Str("bogus")>>)})}

RecognizeOutcomeInputs ==
    {Options(Merge(base, Merge(choice, digits))) :
        base \in OutcomeBaseInputs,
        choice \in OptionalField("choiceOutcome",
            {Options([completionReason |-> Str("dtmfOptionMatched"), choiceName |-> Str("a")]),
             Options(NoProps)}),
        digits \in OptionalField("collectDigitsOutcome",
            {Options([completionReason |-> Str("completedStopToneDetected"),
                      digits |-> Str(d)]) :
                d \in {"1", "11", "1x", "12345", "123456", "0123456789*#ABCD0123"}})}

RecordOutcomeInputs ==
    {Options(Merge(Merge(base, [completionReason |-> Str("maxRecordingTimeout")]),
                   Merge(len, transcription))) :
        base \in OutcomeBaseInputs,
        len \in OptionalField("lengthOfRecordingInSecs", {Num(0), Num(5)}),
        transcription \in OptionalField("transcription",
            {Null,
             Options([hasProfanity |-> Bool(FALSE), outcome |-> Str("success"),
                      completionReason |-> Str("successfulTranscription"),
                      confidence |-> Str("high"), text |-> Str("hi")]),
             Options([hasProfanity |-> Bool(FALSE), outcome |-> Str("failure"),
                      completionReason |-> Str("callTerminated"),
                      confidence |-> Str("low")])})}

\* Outgoing activities as the bot writes them
ActivityInputs ==
    {Null, Options(NoProps), Options([message |-> Null]), Options([message |-> Options(NoProps)])}
    \cup {Options([message |-> Options([content |-> content])]) :
            content \in {Null, Num(5), Str(""), Str(" "), Str("x"), Str("hi")}
                        \cup {Str(text) : text \in DOMAIN LongTexts}}

\* Workflows as the bot writes them
WorkflowInputs ==
    {Null}
    \cup {Options(Merge(Merge(list, links), appState)) :
            list \in OptionalField("actions",
                {Arr(<<Options([action |-> Str("hangup"), operationId |-> Str("x")])>>),
                 Arr(<<Options([action |-> Str("answer"), operationId |-> Str("x")]),
                       Options([action |-> Str("playPrompt"), operationId |-> Str("x"),
                                prompts |-> Arr(<<Options([value |-> Str("hi")])>>)]),
                       Options([action |-> Str("hangup"), operationId |-> Str("x")])>>),
                 Arr(<<Options([action |-> Str("bogus"), operationId |-> Str("x")])>>)}),
            links \in OptionalField("links",
                {Options([callBack |-> Str("https://bot/callback")]),
                 Options([callBack |-> Str("hi")])}),
            appState \in OptionalField("appState", {Str("hi")})}

\* Action objects the bot makes with new and pushes onto workflow.actions
PushedActions ==
    {[a EXCEPT !.n = 99] :
        a \in {Hangup(Options([operationId |-> Str("x")]), Undefined),
               Answer("Answer", Options([operationId |-> Str("x"), action |-> Str("hangup")]),
                      Undefined),
               Answer("Answer", Options([operationId |-> Str("x"), action |-> Str("placeCall")]),
                      Undefined)}}

\* Input maps of new Hangup(inputData): with and without the tag, with the tag
\* of another class, with a key Hangup does not declare
HangupInputs ==
    {Options(Merge(Merge([operationId |-> Str("x")], action), extra)) :
        action \in OptionalField("action", {Str("hangup"), Str("placeCall")}),
        extra \in OptionalField("bogus", {Str("hi")})}

\* Input maps of new HangupOutcome(inputData)
HangupOutcomeInputs ==
    {Options(Merge(base, type)) :
        base \in OutcomeBaseInputs,
        type \in OptionalField("type", {Str("hangupOutcome"), Str("answerOutcome")})}

\* Input maps of the constructors of the other action classes
ActionInputs(cls) ==
    {Options(Merge([operationId |-> Str("x")], m)) : m \in
        CASE cls = "Answer" ->
                {NoProps, [action |-> Str("answer")], [action |-> Str("hangup")]}
          [] cls = "AnswerAppHostedMedia" ->
                {[action |-> Str("answerAppHostedMedia"),
                  mediaConfiguration |-> Options(NoProps)]}
          [] cls = "PlaceCall" ->
                {[action |-> Str("placeCall"), appId |-> Str("x"),
                  source |-> Options([identity |-> Str("28:bot"), originator |-> Bool(TRUE)]),
                  target |-> Options([identity |-> Str("8:alice")])]}
          [] cls = "VideoSubscription" ->
                {[action |-> Str("videoSubscription"), socketId |-> Num(1),
                  participantIdentity |-> Str("8:alice"), videoModality |-> Str("video")]}
          [] cls = "PlayPrompt" ->
                {[action |-> Str("playPrompt")],
                 [action |-> Str("playPrompt"),
                  prompts |-> Arr(<<Options([value |-> Str("hi")])>>)]}
          [] cls = "Record" -> {[action |-> Str("record")]}
          [] cls = "Recognize" ->
                {[action |-> Str("recognize"),
                  collectDigits |-> Options([maxNumberOfDtmfs |-> Num(1)])]}
          [] cls = "Transfer" ->
                {[action |-> Str("transfer"),
                  target |-> Options([identity |-> Str("8:alice")])]}
          [] cls = "Reject" -> {NoProps, [action |-> Str("reject")], [action |-> Str("answer")]}
          [] OTHER -> {}}

\* Webhook bodies of one activity
WebhookMessageInputs ==
    {Null, Arr(<<>>)} \cup {Arr(<<a>>) : a \in WireMessages \cup WireAttachments}

InstanceClasses ==
    {"Prompt", "Recognize", "PlaceCallOutcome", "RecognizeOutcome", "RecordOutcome",
     "Activity", "Workflow", "WebhookMessage", "Hangup", "HangupOutcome",
     "Answer", "AnswerAppHostedMedia", "PlaceCall", "VideoSubscription", "PlayPrompt",
     "Record", "Transfer", "Reject"}

InstanceInputs(cls) ==
    CASE cls = "Prompt" -> PromptInputs
      [] cls = "Recognize" -> RecognizeInputs \cup ActionInputs(cls)
      [] cls = "PlaceCallOutcome" -> PlaceCallOutcomeInputs
      [] cls = "RecognizeOutcome" -> RecognizeOutcomeInputs
      [] cls = "RecordOutcome" -> RecordOutcomeInputs
      [] cls = "Activity" -> ActivityInputs
      [] cls = "Workflow" -> WorkflowInputs
      [] cls = "WebhookMessage" -> WebhookMessageInputs
      [] cls = "Hangup" -> HangupInputs
      [] cls = "HangupOutcome" -> HangupOutcomeInputs
      [] OTHER -> ActionInputs(cls)

\* Largest number of action objects pushed onto a workflow
MaxPushed == 1

\* workflow.actions.push(action), workflow.actions = [action] if it was null
PushOntoWorkflow(action) ==
    /\ modelVia = "constructor"
    /\ ~IsExc(modelInstance)
    /\ modelInstance.cls = "Workflow"
    /\ modelErrors = NotValidated
    /\ modelInstance.f.actions.t \in {"null", "array"}
    /\ Cardinality({i \in 1..Len(modelInstance.f.actions.items) :
                       modelInstance.f.actions.items[i].n >= 99}) < MaxPushed
    /\ modelInstance' =
          [modelInstance EXCEPT !.f.actions =
              Arr(Append(modelInstance.f.actions.items,
                         [action EXCEPT !.n = 99 + Len(modelInstance.f.actions.items)]))]
    /\ UNCHANGED <<modelFamily, modelData, modelVia, modelErrors>>

\* second = new cls(first), first being an instance that validated cleanly
Reconstruct ==
    /\ modelVia = "constructor"
    /\ ~IsExc(modelInstance)
    /\ modelErrors = NoErrors
    /\ modelVia' = "reconstructed"
    /\ modelInstance' = New(modelInstance.cls, modelInstance)
    /\ modelErrors' = NotValidated
    /\ UNCHANGED <<modelFamily, modelData>>

(***************************************************************************)
(* Properties of single instances                                          *)
(***************************************************************************)
\* validate() of the instance built from the input returned no error
ValidatedClean == modelVia = "constructor" /\ Validated /\ modelErrors = NoErrors

IsA(cls) == ~IsExc(modelInstance) /\ modelInstance.cls = cls

FileUriSet == ~IsNull(modelInstance.f.fileUri)
NonBlankValueSet ==
    modelInstance.f.value.t = "string" /\ HasNonWhitespace(modelInstance.f.value.s)
PositiveSilence ==
    /\ modelInstance.f.silenceLengthInMilliSeconds.t = "number"
    /\ modelInstance.f.silenceLengthInMilliSeconds.n > 0

\* C15, as stated: Prompt.validate() returns no errors only when exactly one
\* of fileUri set, non-blank value set and positive silence length holds.
PromptValidOnlyWithExactlyOne ==
    (IsA("Prompt") /\ ValidatedClean)
        => Cardinality({k \in {"fileUri", "value", "silence"} :
                          CASE k = "fileUri" -> FileUriSet
                            [] k = "value" -> NonBlankValueSet
                            [] k = "silence" -> PositiveSilence}) = 1

\* C15, amended: Prompt.validate() returns no errors only when at least one
\* of the three holds and fileUri and a non-blank value are not both set.
PromptValidOnlyWithOneSource ==
    (IsA("Prompt") /\ ValidatedClean)
        => /\ FileUriSet \/ NonBlankValueSet \/ PositiveSilence
           /\ ~(FileUriSet /\ NonBlankValueSet)

\* A prompt with a text and a positive silence length validated cleanly
PromptWithTextAndSilenceWitness ==
    /\ IsA("Prompt") /\ ValidatedClean
    /\ NonBlankValueSet /\ PositiveSilence

\* The choices of the instance, and where they hold a DTMF variation and
\* a speech variation: <<i>> is option i, <<i, k>> its k-th speech variation
Choices == modelInstance.f.choices.items
DtmfAt == {i \in 1..Len(Choices) : ~IsNull(Choices[i].f.dtmfVariation)}
SpeechAt ==
    {p \in (1..Len(Choices)) \X (1..CallingModelLimits.NumberOfSpeechVariations.Max.n) :
        /\ ~IsNull(Choices[p[1]].f.speechVariation)
        /\ p[2] <= Len(Choices[p[1]].f.speechVariation.items)}
SpeechVariationAt(p) == Choices[p[1]].f.speechVariation.items[p[2]]

\* a and b are strings of the same text
SameString(a, b) == IsStringValue(a) /\ IsStringValue(b) /\ a.s = b.s

\* C16: in every Recognize action that validate() returns no errors for and
\* whose choices list is set, no dtmfVariation value occurs in two different
\* options and no speech variation occurs twice in the whole choices list.
ValidChoicesAreUnique ==
    (IsA("Recognize") /\ ValidatedClean /\ ~IsNull(modelInstance.f.choices))
        => /\ \A i, j \in DtmfAt :
                 i # j => ~SameString(Choices[i].f.dtmfVariation, Choices[j].f.dtmfVariation)
           /\ \A p, q \in SpeechAt :
                 p # q => ~SameString(SpeechVariationAt(p), SpeechVariationAt(q))

\* validate() of the instance built from the input returned an error
ValidatedWithErrors ==
    modelVia = "constructor" /\ Validated /\ ~modelErrors.thrown /\ Len(modelErrors.errors) > 0

\* The fields of each outcome class that only a successful outcome carries
SuccessOnlyFields ==
    [PlaceCallOutcome |-> {"acceptedModalityTypes"},
     RecognizeOutcome |-> {"choiceOutcome", "collectDigitsOutcome"},
     RecordOutcome |-> {"transcription"}]

\* The instance reports a failure and has a success-only field set
FailureWithSuccessOnlyField ==
    /\ ~IsExc(modelInstance)
    /\ modelInstance.cls \in DOMAIN SuccessOnlyFields
    /\ StrictEq(modelInstance.f.outcome, Str("failure"))
    /\ \E k \in SuccessOnlyFields[modelInstance.cls] : ~IsNull(modelInstance.f[k])

\* C17: validate() of an outcome whose outcome field is 'failure' reports an
\* error whenever a success-only field is set: transcription on RecordOutcome,
\* acceptedModalityTypes on PlaceCallOutcome, choiceOutcome or
\* collectDigitsOutcome on RecognizeOutcome.
SuccessOnlyFieldRejectedOnFailure ==
    (modelVia = "constructor" /\ Validated /\ FailureWithSuccessOnlyField)
        => ValidatedWithErrors

\* The instance is an Activity whose message holds a text as its content
HasContent ==
    /\ IsA("Activity")
    /\ InstanceOf(modelInstance.f.message, "ActivityMessage")
    /\ modelInstance.f.message.f.content.t = "string"
ContentLength == StrLen(modelInstance.f.message.f.content.s)

\* C18: validate() of an outgoing Activity reports an error whenever
\* message.content has a length below 1 or above 1,024,000.
ContentLengthIsBounded ==
    (modelVia = "constructor" /\ Validated /\ HasContent
     /\ (ContentLength < LimitsV2.MessageContentSizeBytes.Min.n
         \/ ContentLength > LimitsV2.MessageContentSizeBytes.Max.n))
        => ValidatedWithErrors

\* A string of 1 to 20 characters over the DTMF alphabet: what a valid
\* CollectDigits request (maxNumberOfDtmfs from 1 to 20) can collect
IsDtmfString(s) ==
    /\ StrLen(s) >= CallingModelLimits.NumberOfDtmfsExpected.Min.n
    /\ StrLen(s) <= CallingModelLimits.NumberOfDtmfsExpected.Max.n
    /\ \A k \in 1..StrLen(s) : CharsOf(s)[k] \in AllowedDtmfs

\* A successful RecognizeOutcome whose only result is a collectDigitsOutcome
\* that is valid by itself and whose base fields are valid
SuccessWithDigitsOnly ==
    /\ modelVia = "constructor" /\ Validated /\ IsA("RecognizeOutcome")
    /\ IsSuccess(modelInstance)
    /\ OperationOutcomeBaseValidate(modelInstance) = NoErrors
    /\ IsNull(modelInstance.f.choiceOutcome)
    /\ InstanceOf(modelInstance.f.collectDigitsOutcome, "CollectDigitsOutcome")
    /\ CollectDigitsOutcomeValidate(modelInstance.f.collectDigitsOutcome) = NoErrors
    /\ modelInstance.f.collectDigitsOutcome.f.digits.t = "string"

\* C30: a successful RecognizeOutcome carrying only a collectDigitsOutcome
\* with a valid completionReason passes validate() for every digits string of
\* 1 to 20 characters over the DTMF alphabet.
CollectedDigitsAreAccepted ==
    (SuccessWithDigitsOnly
     /\ IsDtmfString(modelInstance.f.collectDigitsOutcome.f.digits.s))
        => modelErrors = NoErrors

\* C19: an instance constructed from an instance of the same class that
\* validate() returned no errors for is constructed without an exception, and
\* validate() returns no errors for it either.
ReconstructedValidatesClean ==
    modelVia = "reconstructed"
        => /\ ~IsExc(modelInstance)
           /\ modelErrors = NotValidated \/ modelErrors = NoErrors

\* The keys a class registers a nested constructor for, in the second argument
\* of its call of populatePlainInput
ObjectClassKeys(cls) ==
    CASE cls = "Workflow" -> {"links", "actions"}
      [] cls = "Activity" -> {"message"}
      [] cls = "PlaceCall" -> {"source", "target"}
      [] cls = "PlayPrompt" -> {"prompts"}
      [] cls = "Recognize" -> {"playPrompt", "choices", "collectDigits"}
      [] cls = "Record" -> {"playPrompt"}
      [] cls = "Transfer" -> {"target"}
      [] cls = "RecognizeOutcome" -> {"choiceOutcome", "collectDigitsOutcome"}
      [] cls = "RecordOutcome" -> {"transcription"}
      [] OTHER -> {}

\* The fields of new cls(): every field at the default its constructor assigns
DefaultFields(cls) == New(cls, Null).f

\* The instance is as its constructor left it, built from an input map
ConstructedFromMap ==
    /\ modelVia = "constructor"
    /\ ~IsExc(modelInstance)
    /\ modelData.t = "object"
    /\ modelInstance.cls = "Workflow" /\ modelInstance.f.actions.t = "array"
           => \A i \in 1..Len(modelInstance.f.actions.items) :
                  modelInstance.f.actions.items[i].n < 99

AbsentKeysKeepDefaults ==
    \A k \in (DOMAIN modelInstance.f) \ (DOMAIN modelData.f) :
        modelInstance.f[k] = DefaultFields(modelFamily)[k]

UndeclaredKeysIgnored ==
    \A k \in (DOMAIN modelData.f) \ (DOMAIN DefaultFields(modelFamily)) :
        k \notin DOMAIN modelInstance.f

\* The keys of the input that are fields of the instance without a nested
\* constructor
PlainKeysPresent ==
    ((DOMAIN modelData.f) \cap (DOMAIN modelInstance.f)) \ ObjectClassKeys(modelFamily)

\* The field a class assigns its own tag to after the input was copied, without
\* copying the input again
TagAssignedLast(cls) ==
    IF cls \in {"Hangup", "Reject"} THEN {"action"}
    ELSE IF cls \in DOMAIN PlainOutcomeType THEN {"type"}
    ELSE {}

OutgoingAttachment(inputData) ==
    populatePlainInput(
        Obj(0, "OutgoingAttachment",
            [originalBase64 |-> Null, thumbnailBase64 |-> Null,
             type |-> Null, name |-> Null]),
        inputData, NoClasses, NoClass)

\* The base64 pattern of Attachment.validate, on the model's strings.  On a
\* very long text the test may throw instead; the exception is swallowed, and
\* the long texts of the model are well-formed, so no error is pushed either way.
MatchesBase64(s) ==
    s \in {"", "eHh4", "eHh4 repeated 5242875 times", "eHh4 repeated 5242881 times"}

\* v != null && typeof(v) === 'string' ? v.length : 0
LengthIfString(v) == IF v.t = "string" THEN StrLen(v.s) ELSE 0

approxSize(this) ==
    LengthIfString(this.f.thumbnailBase64) + LengthIfString(this.f.originalBase64)
    + LengthIfString(this.f.name) + LengthIfString(this.f.type)

OutgoingAttachmentValidate(this) ==
    LET fields ==
            validateString(this.f.originalBase64, "Attachment.originalBase64",
                           FALSE, Undefined, Undefined)
            ++ validateOptionalString(this.f.thumbnailBase64, "Attachment.thumbnailBase64",
                                      FALSE, Undefined, Undefined)
            ++ validateOptionalString(this.f.name, "Attachment.name",
                                      FALSE, Undefined, Undefined)
            ++ validateEnum(this.f.type, AttachmentType, "Attachment.type", {})
        original ==
            PushIf(fields,
                   this.f.originalBase64.t = "string"
                   /\ ~MatchesBase64(this.f.originalBase64.s),
                   "Attachment.originalBase64 is not a valid base64-encoded string")
        thumbnail ==
            PushIf(original,
                   this.f.thumbnailBase64.t = "string"
                   /\ ~MatchesBase64(this.f.thumbnailBase64.s),
                   "Attachment.thumbnailBase64 is not a valid base64-encoded string")
    IN  PushIf(thumbnail,
               approxSize(this) > LimitsV2.AttachmentRequestSize.Max.n,
               "Total size of attachment request " \o ToText(Num(approxSize(this)))
                   \o " exceeds maximum limit size of "
                   \o ToText(LimitsV2.AttachmentRequestSize.Max) \o " bytes")

\* Buffer(content, 'binary').toString('base64') on the contents the model draws
ToBase64(content) ==
    CASE content = "" -> ""
      [] content = "xxx" -> "eHh4"
      [] content = "xxx repeated 5242875 times" -> "eHh4 repeated 5242875 times"
      [] content = "xxx repeated 5242881 times" -> "eHh4 repeated 5242881 times"

\* content == null ? null : Buffer(content, 'binary').toString('base64')
Base64OrNull(content) == IF IsNull(content) THEN Null ELSE Str(ToBase64(content.s))

\* JSON.stringify(v).length for a string without characters to escape, or null
JsonValueLength(v) == IF v.t = "string" THEN StrLen(v.s) + 2 ELSE 4

\* JSON.stringify(att).length: braces, four quoted keys with their colons,
\* three commas, and the four values
SerializedLength(att) ==
    2 + (14 + 3) + (15 + 3) + (4 + 3) + (4 + 3) + 3
    + JsonValueLength(att.f.originalBase64) + JsonValueLength(att.f.thumbnailBase64)
    + JsonValueLength(att.f.type) + JsonValueLength(att.f.name)

(***************************************************************************)
(* The messaging client: sendMessage and postAttachment.  Each call builds *)
(* the model, validates it, and then runs a waterfall of three steps: get  *)
(* a token, send the request, read the response.  The token service and    *)
(* the HTTP transport answer later, each in a callback of its own.         *)
(***************************************************************************)
VARIABLES clientOp, clientModel, clientErrors, clientPc,
          tokenRequests, httpRequests, clientCallbacks

clientVars == <<clientOp, clientModel, clientErrors, clientPc,
                tokenRequests, httpRequests, clientCallbacks>>

\* No call has been made on the client
ClientIdle ==
    /\ clientOp = "none"
    /\ clientModel = Null
    /\ clientErrors = Thrown("idle")
    /\ clientPc = "idle"
    /\ tokenRequests = 0
    /\ httpRequests = 0
    /\ clientCallbacks = <<>>

\* The client after construction
ClientReady ==
    /\ clientOp = "none"
    /\ clientModel = Null
    /\ clientErrors = NotValidated
    /\ clientPc = "ready"
    /\ tokenRequests = 0
    /\ httpRequests = 0
    /\ clientCallbacks = <<>>

\* The token is asked for before the errors are looked at
ClientValidatedAfterToken(errors) ==
    /\ tokenRequests' = tokenRequests + 1
    /\ clientPc' = IF errors.thrown \/ Len(errors.errors) > 0 THEN "thrown" ELSE "token"

\* const errors = model.validate(); if (errors.length > 0) throw ...;
\* async.waterfall([(next) => this._tokenService.getToken(next), ...
ClientValidated(errors) ==
    IF errors.thrown \/ Len(errors.errors) > 0
    THEN /\ clientPc' = "thrown"
         /\ UNCHANGED tokenRequests
    ELSE /\ clientPc' = "token"
         /\ tokenRequests' = tokenRequests + 1

MessageContents ==
    {Null, Num(5), Str(""), Str("hi"), Str("x repeated 1024000 times"),
     Str("x repeated 1024001 times")}

\* The activity sendMessage builds
MessageActivity(content) ==
    SetProp(Activity(Undefined), "message",
            SetProp(ActivityMessage(Undefined), "content", content))

sendMessage(content) ==
    /\ clientPc = "ready"
    /\ clientOp' = "sendMessage"
    /\ clientModel' = MessageActivity(content)
    /\ clientErrors' = ActivityValidate(MessageActivity(content))
    /\ ClientValidated(ActivityValidate(MessageActivity(content)))
    /\ UNCHANGED <<httpRequests, clientCallbacks>>

AttachmentNames == {Null, Str("x")}
AttachmentTypes == {Null, Str("Image"), Str("bogus")}
BinaryContents ==
    {Null, Str(""), Str("xxx"), Str("xxx repeated 5242875 times"),
     Str("xxx repeated 5242881 times")}
ThumbnailContents == {Null, Str("xxx")}

\* The attachment postAttachment builds
BuiltAttachment(name, type, binaryContent, thumbnailContent) ==
    [OutgoingAttachment(Undefined) EXCEPT
        !.f = [originalBase64 |-> Base64OrNull(binaryContent),
               thumbnailBase64 |-> Base64OrNull(thumbnailContent),
               type |-> type, name |-> name]]

postAttachment(name, type, binaryContent, thumbnailContent) ==
    /\ clientPc = "ready"
    /\ clientOp' = "postAttachment"
    /\ clientModel' = BuiltAttachment(name, type, binaryContent, thumbnailContent)
    /\ clientErrors' = OutgoingAttachmentValidate(
                           BuiltAttachment(name, type, binaryContent, thumbnailContent))
    /\ ClientValidated(OutgoingAttachmentValidate(
                           BuiltAttachment(name, type, binaryContent, thumbnailContent)))
    /\ UNCHANGED <<httpRequests, clientCallbacks>>

\* The token service answers with an error: the waterfall ends with it
TokenFailed ==
    /\ clientPc = "token"
    /\ clientPc' = "done"
    /\ clientCallbacks' = Append(clientCallbacks, "token error")
    /\ UNCHANGED <<clientOp, clientModel, clientErrors, tokenRequests, httpRequests>>

\* if (serializedContent.length > Limits.AttachmentRequestSize.Max)
TooLongToPost ==
    /\ clientOp = "postAttachment"
    /\ SerializedLength(clientModel) > LimitsV2.AttachmentRequestSize.Max.n

\* The token service answers with a token: the second step of the waterfall.
\* In postAttachment the size check hands the error to next and goes on
\* to build and send the request
TokenReceived ==
    /\ clientPc = "token"
    /\ clientPc' = "request"
    /\ clientCallbacks' =
          IF TooLongToPost
          THEN Append(clientCallbacks,
                      "Serialized content size exceeds maximum allowed limit.")
          ELSE clientCallbacks
    /\ httpRequests' = httpRequests + 1
    /\ UNCHANGED <<clientOp, clientModel, clientErrors, tokenRequests>>

\* What the completion callback receives when the answer to the request
\* reaches next and the waterfall has not ended before
Answered(outcome) ==
    CASE outcome = "error" -> "request error"
      [] outcome \in {"2xx", "2xx with a body that is not JSON"} -> "success"
      [] OTHER -> "Failed with " \o outcome

RequestOutcomes == {"error", "2xx", "2xx with a body that is not JSON", "404", "500"}

\* new attachment.AttachmentResponse(JSON.parse(body)) throws in the third step
ResponseThrows(outcome) ==
    clientOp = "postAttachment" /\ outcome = "2xx with a body that is not JSON"

\* The request ends: req.on('error', next), or request's callback next with
\* the response, and the third step.  When the waterfall has ended before
\* (the size error), what a second call of next does is up to the version
\* of the async library: it throws, it is dropped, or it reaches the
\* completion callback again
RequestEnded(outcome, again) ==
    /\ clientPc = "request"
    /\ clientPc' = "done"
    /\ clientCallbacks' =
          IF (Len(clientCallbacks) = 0 \/ again) /\ ~ResponseThrows(outcome)
          THEN Append(clientCallbacks, Answered(outcome))
          ELSE clientCallbacks
    /\ UNCHANGED <<clientOp, clientModel, clientErrors, tokenRequests, httpRequests>>

(***************************************************************************)
(* Properties of the messaging client                                      *)
(***************************************************************************)
\* What validate() returns for the model the operation has built
ClientModelErrors ==
    IF clientOp = "sendMessage" THEN ActivityValidate(clientModel)
    ELSE OutgoingAttachmentValidate(clientModel)

\* C21: sendMessage and postAttachment validate the model first: when
\* validate() returns an error the operation throws, no token is requested
\* and no HTTP request is sent; a token or HTTP request happens only after
\* validate() returned no errors.
ValidationBeforeTransmission ==
    clientOp # "none" =>
        /\ (ClientModelErrors.thrown \/ Len(ClientModelErrors.errors) > 0) =>
                /\ clientPc = "thrown"
                /\ tokenRequests = 0
                /\ httpRequests = 0
                /\ clientCallbacks = <<>>
        /\ (tokenRequests > 0 \/ httpRequests > 0) =>
                /\ ClientModelErrors = NoErrors
                /\ clientPc # "thrown"
        /\ httpRequests <= tokenRequests

\* postAttachment has thrown on an attachment whose parts add up to more
\* than the limit
OversizeAttachmentThrownWitness ==
    /\ clientOp = "postAttachment"
    /\ clientPc = "thrown"
    /\ approxSize(clientModel) > 20971520
    /\ Len(clientErrors.errors) = 1
    /\ tokenRequests = 0

\* C22: postAttachment never sends the HTTP POST when the serialized
\* attachment is longer than 20,971,520 characters: the completion callback
\* is reached once, with the size error, and no request leaves the client.
OversizeAttachmentNeverPosted ==
    TooLongToPost =>
        /\ httpRequests = 0
        /\ clientPc \in {"request", "done"} =>
               clientCallbacks = <<"Serialized content size exceeds maximum allowed limit.">>

(***************************************************************************)
(* Conversations of the calling model                                      *)
(***************************************************************************)
CallState ==
    {"idle", "incoming", "establishing", "established", "hold", "unhold",
     "transferring", "redirecting", "terminating", "terminated"}

Conversation(inputData) ==
    populatePlainInput(
        WithDefaults(ConversationBase("Conversation", inputData),
                     [participants |-> Null, isMultiParty |-> Bool(FALSE), threadId |-> Null,
                      presentedModalityTypes |-> Null, callState |-> Null,
                      subject |-> Null, additionalData |-> Null]),
        inputData, {"participants"},
        [p \in Attributes(inputData, {"participants"}) |-> Participant(p[2])])

ConversationValidate(this) ==
    (IF ~IsNull(this.f.isMultiParty) /\ Truthy(this.f.isMultiParty)
     THEN ConversationBaseValidate(this)
          ++ validateString(this.f.threadId, "Conversation.threadId", FALSE,
                            Undefined, Undefined)
     ELSE PushIf(ConversationBaseValidate(this), ~IsNull(this.f.threadId),
                 "Conversation.threadId must be null when Conversation.isMultiParty is not set"))
    ++ validateEnum(this.f.callState, CallState, "Conversation.callState", {})
    ++ validateTypedObjectArray(this.f.participants, "Participant",
                                "Conversation.participants", "Participant")
    ++ validateEnumArray(this.f.presentedModalityTypes, CallingModelEnums.ModalityType,
                         "Conversation.presentedModalityTypes", <<>>)
    ++ validateBoolean(this.f.isMultiParty, "Conversation.isMultiParty")
    ++ validateOptionalString(this.f.subject, "Conversation.subject", FALSE,
                              Undefined, Undefined)
    ++ validateGenericObject(this.f.additionalData, "Conversation.additionalData", TRUE)

\* The constructor calls super() without the input
ConversationResult(inputData) ==
    populatePlainInput(
        WithDefaults(ConversationBase("ConversationResult", Undefined),
                     [operationOutcome |-> Null, callState |-> Str("idle")]),
        inputData, {"operationOutcome"},
        [p \in Attributes(inputData, {"operationOutcome"}) |->
            instantiateOperationOutcome(p[2])])

ConversationResultValidate(this) ==
    ConversationBaseValidate(this)
    ++ validateEnum(this.f.callState, CallState, "ConversationResult.callState", {})
    ++ validateTypedObject(this.f.operationOutcome, "OperationOutcomeBase",
                           "ConversationResult.operationOutcome", "OperationOutcomeBase")

(***************************************************************************)
(* The calling service: processCall and processCallback take the body of   *)
(* a request and the outer callback of the transport, and hand the event   *)
(* to the handler the bot has registered; the handler answers later by     *)
(* calling the finishing callback it was given.                            *)
(***************************************************************************)
VARIABLES callContent, callAdditional, callPc, callFinisher, callWorkflow,
          callFinish, callCallbacks, callThrown

callVars == <<callContent, callAdditional, callPc, callFinisher, callWorkflow,
              callFinish, callCallbacks, callThrown>>

\* The handler has not finished
NotFinished == [error |-> "none", workflow |-> FALSE]

\* No request has reached the calling service
CallingIdle ==
    /\ callContent = Null
    /\ callAdditional = Null
    /\ callPc = "idle"
    /\ callFinisher = "none"
    /\ callWorkflow = Null
    /\ callFinish = NotFinished
    /\ callCallbacks = <<>>
    /\ callThrown = ""

\* The calling service after construction
CallingReady ==
    /\ callContent = Null
    /\ callAdditional = Null
    /\ callPc = "ready"
    /\ callFinisher = "none"
    /\ callWorkflow = Null
    /\ callFinish = NotFinished
    /\ callCallbacks = <<>>
    /\ callThrown = ""

\* The callbackUri the service was constructed with
CallbackUri == "https://bot/callback"

\* Largest number of actions a handler pushes onto the workflow it is given
MaxHandlerActions == 2

\* callback(error) and callback(null, response) of the outer callback
CalledBack(error, response) == [error |-> error, response |-> response]

\* Calling a value that is not a function
NotAFunction == "TypeError: callback is not a function"

_createWorkflow ==
    [Workflow(Undefined) EXCEPT
        !.f.links = CallBackLink(Options([callBack |-> Str(CallbackUri)])),
        !.f.actions = Arr(<<>>)]

\* The workflow callback hands on every workflow it is given
UncheckedWorkflowCallback(error, workflow) ==
    IF error # "" THEN [thrown |-> "", calls |-> <<CalledBack(error, Undefined)>>]
    ELSE IF Truthy(workflow)
         THEN [thrown |-> "", calls |-> <<CalledBack("", workflow)>>]
    ELSE [thrown |-> "", calls |-> <<CalledBack("", Undefined)>>]

\* const errors = workflow.validate(); if (errors.length > 0) ...
WorkflowValidated(errors, workflow) ==
    IF errors.thrown THEN [thrown |-> errors.exc, calls |-> <<>>]
    ELSE IF Len(errors.errors) > 0
    THEN [thrown |-> "", calls |-> <<CalledBack("Received invalid workflow.", Undefined)>>]
    ELSE [thrown |-> "", calls |-> <<CalledBack("", workflow)>>]

\* The function _createWorkflowCallback(callback) returns, called with
\* (error, workflow): the calls of callback it makes, or what it throws
_createWorkflowCallback(error, workflow) ==
    IF error # "" THEN [thrown |-> "", calls |-> <<CalledBack(error, Undefined)>>]
    ELSE IF Truthy(workflow) THEN WorkflowValidated(WorkflowValidate(workflow), workflow)
    ELSE [thrown |-> "", calls |-> <<CalledBack("", Undefined)>>]

\* The request ends inside the service: callback(new Error(message))
EndsWith(message) ==
    /\ callPc' = "done"
    /\ callCallbacks' = Append(callCallbacks, CalledBack(message, Undefined))
    /\ UNCHANGED <<callFinisher, callWorkflow, callFinish, callThrown>>

\* The request ends with an exception that leaves the service
EndsThrowing(message) ==
    /\ callPc' = "done"
    /\ callThrown' = message
    /\ UNCHANGED <<callFinisher, callWorkflow, callFinish, callCallbacks>>

\* _tryCallHandler(handler, callback, args), callback and the finishing
\* callback among args being finisher
_tryCallHandler(registered, finisher, workflow) ==
    IF ~registered
    THEN IF finisher = "additionalData" THEN EndsThrowing(NotAFunction)
         ELSE EndsWith("No event handler found.")
    ELSE /\ callPc' = "handler"
         /\ callFinisher' = finisher
         /\ callWorkflow' = workflow
         /\ UNCHANGED <<callFinish, callCallbacks, callThrown>>

\* processCall(content, callback); registered: onIncomingCall has been called
processCall(content, registered) ==
    /\ callPc = "ready"
    /\ callContent' = content
    /\ UNCHANGED callAdditional
    /\ IF ConversationValidate(Conversation(content)) # NoErrors
       THEN EndsWith("Received invalid conversation.")
       ELSE _tryCallHandler(registered, "workflow callback", _createWorkflow)

\* The outcome types _processConversationResult has a handler for
HandledOutcomeTypes ==
    {"answerOutcome", "hangupOutcome", "playPromptOutcome", "recognizeOutcome",
     "recordOutcome", "rejectOutcome", "workflowValidationOutcome"}

_processConversationResult(result, registered) ==
    IF \E type \in HandledOutcomeTypes : StrictEq(result.f.operationOutcome.f.type, Str(type))
    THEN _tryCallHandler(registered, "workflow callback", _createWorkflow)
    ELSE EndsWith("Unknown conversation result type.")

\* _processCallStateChange(content, callback), called with (content,
\* additionalData, callback): its callback is the additionalData of the
\* request, null or a Buffer, and the third argument is dropped
_processCallStateChange(content, registered) ==
    IF CallStateChangeNotificationValidate(CallStateChangeNotification(content)) # NoErrors
    THEN EndsThrowing(NotAFunction)
    ELSE _tryCallHandler(registered, "additionalData", Null)

\* The callback processCallback gives it is only ever called with an error,
\* which it hands to the outer callback
_processNotification(content, registered) ==
    IF "type" \notin DOMAIN content.f
    THEN EndsWith("Callback content not recognized.")
    ELSE IF StrictEq(content.f.type, Str("callStateChange"))
    THEN _processCallStateChange(content, registered)
    ELSE IF StrictEq(content.f.type, Str("rosterUpdate"))
    THEN EndsWith("RosterUpdate event not supported yet.")
    ELSE EndsWith("Notification type not recognized.")

\* processCallback once errors = result.validate() has returned
ResultValidated(errors, result, content, registered) ==
    IF errors # NoErrors THEN _processNotification(content, registered)
    ELSE _processConversationResult(result, registered)

\* processCallback once result = new ConversationResult(content) has
\* returned or thrown
ResultBuilt(result, content, registered) ==
    IF IsExc(result) THEN _processNotification(content, registered)
    ELSE ResultValidated(ConversationResultValidate(result), result, content, registered)

\* processCallback(content, additionalData, callback); registered: the
\* handlers of the results and of the call state change have been registered
processCallback(content, additionalData, registered) ==
    /\ callPc = "ready"
    /\ callContent' = content
    /\ callAdditional' = additionalData
    /\ ResultBuilt(ConversationResult(content), content, registered)

\* The actions a handler pushes
HandlerActions ==
    {Answer("Answer", Options([operationId |-> Str("x")]), Undefined),
     Answer("Answer", Options(NoProps), Undefined),
     Hangup(Options([operationId |-> Str("x")]), Undefined)}

\* The handler: workflow.actions.push(action)
HandlerPushes(action) ==
    /\ callPc = "handler"
    /\ callFinisher = "workflow callback"
    /\ Len(callWorkflow.f.actions.items) < MaxHandlerActions
    /\ callWorkflow' =
          [callWorkflow EXCEPT !.f.actions =
              Arr(Append(callWorkflow.f.actions.items,
                         [action EXCEPT !.n = 1 + Len(callWorkflow.f.actions.items)]))]
    /\ UNCHANGED <<callContent, callAdditional, callPc, callFinisher, callFinish,
                   callCallbacks, callThrown>>

\* The finishing callback has returned or thrown
FinisherReturned(result) ==
    /\ callThrown' = result.thrown
    /\ callCallbacks' = callCallbacks \o result.calls

\* The handler calls the finishing callback it was given, once:
\* callback(error), callback(error, workflow), callback(null, workflow) or
\* callback(null)
HandlerFinishes(error, passesWorkflow) ==
    /\ callPc = "handler"
    /\ callPc' = "done"
    /\ callFinish' = [error |-> error, workflow |-> passesWorkflow]
    /\ IF callFinisher = "additionalData"
       THEN /\ callThrown' = NotAFunction
            /\ UNCHANGED callCallbacks
       ELSE FinisherReturned(
                _createWorkflowCallback(
                    error, IF passesWorkflow THEN callWorkflow ELSE Undefined))
    /\ UNCHANGED <<callContent, callAdditional, callFinisher, callWorkflow>>

\* Bodies of the requests for a new call
ConversationContents ==
    {Options([id |-> Str("x"), callState |-> Str("incoming"),
              participants |-> Arr(<<Options([identity |-> Str("8:alice"),
                                              originator |-> Bool(TRUE)])>>),
              presentedModalityTypes |-> Arr(<<Str("audio")>>)]),
     Options([callState |-> Str("incoming"),
              participants |-> Arr(<<Options([identity |-> Str("8:alice"),
                                              originator |-> Bool(TRUE)])>>),
              presentedModalityTypes |-> Arr(<<Str("audio")>>)]),
     Options(NoProps)}

\* Bodies of the callback requests: conversation results of each outcome
\* type, call state change and other notifications, and other content
CallbackContents ==
    {Options([id |-> Str("x"),
              operationOutcome |-> Options([type |-> Str(type), id |-> Str("x"),
                                            outcome |-> Str("success")])]) :
        type \in {"answerOutcome", "hangupOutcome", "playPromptOutcome", "recordOutcome",
                  "rejectOutcome", "workflowValidationOutcome", "transferOutcome",
                  "bogus"}}
    \cup {Options([operationOutcome |-> Options([type |-> Str("answerOutcome"),
                                                 id |-> Str("x"),
                                                 outcome |-> Str("success")])])}
    \cup {Options(Merge([type |-> Str(type), id |-> Str("x")], state)) :
             type \in {"callStateChange", "rosterUpdate", "bogus"},
             state \in {NoProps, [currentState |-> Str("established")]}}
    \cup {Options([id |-> Str("x")])}

\* null from a JSON request, a Buffer from a multipart one
AdditionalData == {Null, Obj(0, "Buffer", NoProps)}

(***************************************************************************)
(* Properties of the calling service                                       *)
(***************************************************************************)
\* The handler has finished by handing a workflow, and no error, to the
\* workflow callback
FinishedWithWorkflow ==
    /\ callPc = "done"
    /\ callFinisher = "workflow callback"
    /\ callFinish # NotFinished
    /\ callFinish.workflow
    /\ callFinish.error = ""

\* C23: on the calling path a workflow reaches the outer callback only if
\* its validate() returned no errors: when a handler finishes with a
\* workflow whose validate() reports an error, an empty actions list
\* included, the outer callback receives an Error and no workflow.
OnlyValidWorkflowsReachCallback ==
    /\ \A i \in 1..Len(callCallbacks) :
          ~IsNull(callCallbacks[i].response) =>
              /\ callCallbacks[i].error = ""
              /\ WorkflowValidate(callCallbacks[i].response) = NoErrors
    /\ (FinishedWithWorkflow /\ WorkflowValidate(callWorkflow) # NoErrors) =>
          /\ Len(callCallbacks) = 1
          /\ callCallbacks[1].error # ""
          /\ IsNull(callCallbacks[1].response)

\* A handler has finished with the workflow it was given, without any action
EmptyWorkflowRefusedWitness ==
    /\ FinishedWithWorkflow
    /\ callWorkflow.f.actions = Arr(<<>>)
    /\ callCallbacks = <<CalledBack("Received invalid workflow.", Undefined)>>

\* C24: for every processCall and processCallback invocation the outer
\* callback is invoked exactly once, on every path, provided the handler
\* calls the finishing callback it is given exactly once; the handler of the
\* call state change is given a finishing callback that reaches the outer
\* callback.
OuterCallbackExactlyOnce ==
    /\ callPc = "done" => Len(callCallbacks) = 1
    /\ callPc = "handler" => callCallbacks = <<>> /\ callFinisher = "workflow callback"
    /\ callThrown = ""

(***************************************************************************)
(* The token services: AuthService and S2SClient.  getToken hands the      *)
(* cached token to its callback, or waits for the renewal that is pending, *)
(* or starts one; the answer to the renewal request arrives later.         *)
(***************************************************************************)
VARIABLES tokService, tokToken, tokValid, tokRenewing, tokInFlight, tokWaiters,
          tokAsked, tokCalled

tokenVars == <<tokService, tokToken, tokValid, tokRenewing, tokInFlight, tokWaiters,
               tokAsked, tokCalled>>

\* Largest number of getToken calls
MaxCallers == 3

\* No token service has been constructed
TokenIdle ==
    /\ tokService = "none"
    /\ tokToken = Null
    /\ tokValid = FALSE
    /\ tokRenewing = FALSE
    /\ tokInFlight = <<>>
    /\ tokWaiters = <<>>
    /\ tokAsked = 0
    /\ tokCalled = <<>>

\* The constructors: _token = null, _validUntil = new Date(0), not renewing
TokenServiceConstructed ==
    /\ tokService \in {"AuthService", "S2SClient"}
    /\ tokToken = Null
    /\ tokValid = FALSE
    /\ tokRenewing = FALSE
    /\ tokInFlight = <<>>
    /\ tokWaiters = <<>>
    /\ tokAsked = 0
    /\ tokCalled = [c \in 1..MaxCallers |-> <<>>]

\* callback(err) / callback(null, token) of the callers in order
CallEach(called, callers, outcome) ==
    [c \in DOMAIN called |->
        called[c] \o [i \in 1..Cardinality({j \in DOMAIN callers : callers[j] = c}) |-> outcome]]

\* getToken that starts a renewal whenever the token has expired
getTokenWithoutFlag(c) ==
    /\ tokService # "none"
    /\ c = tokAsked + 1
    /\ c <= MaxCallers
    /\ tokAsked' = c
    /\ IF tokValid
       THEN /\ tokCalled' = CallEach(tokCalled, <<c>>, ToText(tokToken))
            /\ UNCHANGED <<tokRenewing, tokInFlight, tokWaiters>>
       ELSE /\ tokRenewing' = TRUE
            /\ tokInFlight' = Append(tokInFlight, c)
            /\ UNCHANGED <<tokWaiters, tokCalled>>
    /\ UNCHANGED <<tokService, tokToken, tokValid>>

\* getToken(callback), c being the caller; tokValid is new Date() < _validUntil
getToken(c) ==
    /\ tokService # "none"
    /\ c = tokAsked + 1
    /\ c <= MaxCallers
    /\ tokAsked' = c
    /\ IF tokValid
       THEN /\ tokCalled' = CallEach(tokCalled, <<c>>, ToText(tokToken))
            /\ UNCHANGED <<tokRenewing, tokInFlight, tokWaiters>>
       ELSE IF tokRenewing
       THEN /\ tokWaiters' = Append(tokWaiters, c)
            /\ UNCHANGED <<tokRenewing, tokInFlight, tokCalled>>
       ELSE /\ tokRenewing' = TRUE
            /\ tokInFlight' = Append(tokInFlight, c)
            /\ UNCHANGED <<tokWaiters, tokCalled>>
    /\ UNCHANGED <<tokService, tokToken, tokValid>>

\* Time passes until _validUntil
TokenExpires ==
    /\ tokValid
    /\ tokValid' = FALSE
    /\ UNCHANGED <<tokService, tokToken, tokRenewing, tokInFlight, tokWaiters,
                   tokAsked, tokCalled>>

\* _setNewToken(err, data, callback) with an error: the flag is reset, the
\* listeners of 'token' are called and removed, then the callback
SetNewTokenFailed(message) ==
    /\ tokRenewing' = FALSE
    /\ tokCalled' = CallEach(tokCalled, tokWaiters \o <<Head(tokInFlight)>>, message)
    /\ tokWaiters' = <<>>
    /\ UNCHANGED <<tokToken, tokValid>>

\* _setNewToken(null, data, callback); fresh: the new _validUntil is later
\* than now
SetNewToken(fresh) ==
    /\ tokRenewing' = FALSE
    /\ tokToken' = Str("token")
    /\ tokValid' = fresh
    /\ tokCalled' = CallEach(tokCalled, tokWaiters \o <<Head(tokInFlight)>>, "token")
    /\ tokWaiters' = <<>>

RenewalOutcomes == {"token", "request error", "error response", "body that is not JSON"}

\* The renewal request of AuthService ends: the callback of request.post in
\* _renewToken, and _setNewToken, where JSON.parse(data) throws after the
\* flag has been reset
AuthRenewalEnds(outcome, fresh) ==
    CASE outcome = "request error" -> SetNewTokenFailed("request error")
      [] outcome = "error response" -> SetNewTokenFailed("Received error")
      [] outcome = "body that is not JSON" ->
            /\ tokRenewing' = FALSE
            /\ UNCHANGED <<tokToken, tokValid, tokWaiters, tokCalled>>
      [] OTHER -> SetNewToken(fresh)

\* The renewal request of S2SClient ends: request.on('error', callback), or
\* _handleRenewTicketResponse, where JSON.parse(data) throws before the
\* callback is reached
S2SRenewalEnds(outcome, fresh) ==
    CASE outcome = "request error" -> SetNewTokenFailed("request error")
      [] outcome = "error response" -> SetNewTokenFailed("error (error_description)")
      [] outcome = "body that is not JSON" ->
            UNCHANGED <<tokToken, tokValid, tokRenewing, tokWaiters, tokCalled>>
      [] OTHER -> SetNewToken(fresh)

\* The answer to the oldest renewal request arrives
RenewalEnds(outcome, fresh) ==
    /\ tokInFlight # <<>>
    /\ tokInFlight' = Tail(tokInFlight)
    /\ IF tokService = "AuthService" THEN AuthRenewalEnds(outcome, fresh)
       ELSE S2SRenewalEnds(outcome, fresh)
    /\ UNCHANGED <<tokService, tokAsked>>

(***************************************************************************)
(* Properties of the token services                                        *)
(***************************************************************************)
\* C26: at most one token renewal request is in flight per AuthService and
\* per S2SClient: a getToken call that arrives while the token is expired
\* and a renewal is pending starts no second renewal, it waits for the
\* pending one.
AtMostOneRenewalInFlight ==
    /\ Len(tokInFlight) <= 1
    /\ tokInFlight # <<>> => tokRenewing
    /\ \A i \in DOMAIN tokWaiters :
          /\ tokCalled[tokWaiters[i]] = <<>>
          /\ \A j \in DOMAIN tokInFlight : tokInFlight[j] # tokWaiters[i]

\* Two callers wait for the renewal a third has started
TwoCallersWaitWitness ==
    /\ Len(tokInFlight) = 1
    /\ Len(tokWaiters) = 2
    /\ tokRenewing

\* C27: every callback passed to getToken is eventually invoked, exactly
\* once, after the renewal it depends on has completed, be it with a token,
\* an error response or a body that cannot be parsed; the renewing flag is
\* false again afterwards and no later getToken call waits forever.
EveryCallerAnsweredOnce ==
    /\ [](\A c \in 1..MaxCallers : Len(tokCalled[c]) <= 1)
    /\ [](tokInFlight = <<>> => ~tokRenewing)
    /\ \A c \in 1..MaxCallers : (tokAsked >= c) ~> (Len(tokCalled[c]) = 1)

(***************************************************************************)
(* Specifications, one for each part of the library                        *)
(***************************************************************************)
serviceVars == <<clientVars, callVars, tokenVars>>

\* Nothing is going on in the client, the calling service and the token service
ServicesIdle == ClientIdle /\ CallingIdle /\ TokenIdle

vars == <<requestData, webhookResult, actions, actionErrors,
          modelFamily, modelData, modelVia, modelInstance, modelErrors,
          clientOp, clientModel, clientErrors, clientPc,
          tokenRequests, httpRequests, clientCallbacks,
          callContent, callAdditional, callPc, callFinisher, callWorkflow,
          callFinish, callCallbacks, callThrown,
          tokService, tokToken, tokValid, tokRenewing, tokInFlight, tokWaiters,
          tokAsked, tokCalled>>

InitWebhook ==
    /\ requestData \in RequestBodies
    /\ webhookResult = NotRun
    /\ ActionsIdle
    /\ ModelIdle
    /\ ServicesIdle

NextWebhook == ProcessRequest /\ UNCHANGED <<actionVars, modelVars, serviceVars>>

SpecWebhook == InitWebhook /\ [][NextWebhook]_vars

InitActions ==
    /\ actions = Arr(<<>>)
    /\ actionErrors = NotValidated
    /\ WebhookIdle
    /\ ModelIdle
    /\ ServicesIdle

NextActions ==
    \/ \E i \in 1..Len(ActionPool) : PushAction(i) /\ UNCHANGED <<webhookVars, modelVars, serviceVars>>
    \/ ValidateActions /\ UNCHANGED <<webhookVars, modelVars, serviceVars>>

SpecActions == InitActions /\ [][NextActions]_vars

InitModel ==
    /\ modelFamily \in Families
    /\ modelData \in ModelInputs(modelFamily)
    /\ modelVia = "none"
    /\ modelInstance = NotBuilt
    /\ modelErrors = NotValidated
    /\ WebhookIdle
    /\ ActionsIdle
    /\ ServicesIdle

NextModel ==
    \/ Instantiate /\ UNCHANGED <<webhookVars, actionVars, serviceVars>>
    \/ \E cls \in ClassesOf(modelFamily) : Construct(cls) /\ UNCHANGED <<webhookVars, actionVars, serviceVars>>
    \/ ValidateInstance /\ UNCHANGED <<webhookVars, actionVars, serviceVars>>

SpecModel == InitModel /\ [][NextModel]_vars

InitInstance ==
    /\ modelFamily \in InstanceClasses
    /\ modelData \in InstanceInputs(modelFamily)
    /\ modelVia = "none"
    /\ modelInstance = NotBuilt
    /\ modelErrors = NotValidated
    /\ WebhookIdle
    /\ ActionsIdle
    /\ ServicesIdle

NextInstance ==
    \/ Construct(modelFamily) /\ UNCHANGED <<webhookVars, actionVars, serviceVars>>
    \/ ValidateInstance /\ UNCHANGED <<webhookVars, actionVars, serviceVars>>
    \/ \E action \in PushedActions :
          PushOntoWorkflow(action) /\ UNCHANGED <<webhookVars, actionVars, serviceVars>>
    \/ Reconstruct /\ UNCHANGED <<webhookVars, actionVars, serviceVars>>

SpecInstance == InitInstance /\ [][NextInstance]_vars

InitClient ==
    /\ ClientReady
    /\ CallingIdle
    /\ TokenIdle
    /\ WebhookIdle
    /\ ActionsIdle
    /\ ModelIdle

NextClient ==
    \/ \E content \in MessageContents :
          sendMessage(content) /\ UNCHANGED <<webhookVars, actionVars, modelVars, callVars, tokenVars>>
    \/ \E name \in AttachmentNames, type \in AttachmentTypes,
          binaryContent \in BinaryContents, thumbnailContent \in ThumbnailContents :
          postAttachment(name, type, binaryContent, thumbnailContent)
          /\ UNCHANGED <<webhookVars, actionVars, modelVars, callVars, tokenVars>>
    \/ TokenFailed /\ UNCHANGED <<webhookVars, actionVars, modelVars, callVars, tokenVars>>
    \/ TokenReceived /\ UNCHANGED <<webhookVars, actionVars, modelVars, callVars, tokenVars>>
    \/ \E outcome \in RequestOutcomes, again \in BOOLEAN :
          RequestEnded(outcome, again) /\ UNCHANGED <<webhookVars, actionVars, modelVars, callVars, tokenVars>>

SpecClient == InitClient /\ [][NextClient]_vars

InitCalling ==
    /\ CallingReady
    /\ ClientIdle
    /\ TokenIdle
    /\ WebhookIdle
    /\ ActionsIdle
    /\ ModelIdle

NextCalling ==
    \/ \E content \in ConversationContents, registered \in BOOLEAN :
          processCall(content, registered)
          /\ UNCHANGED <<webhookVars, actionVars, modelVars, clientVars, tokenVars>>
    \/ \E content \in CallbackContents, additionalData \in AdditionalData,
          registered \in BOOLEAN :
          processCallback(content, additionalData, registered)
          /\ UNCHANGED <<webhookVars, actionVars, modelVars, clientVars, tokenVars>>
    \/ \E action \in HandlerActions :
          HandlerPushes(action) /\ UNCHANGED <<webhookVars, actionVars, modelVars, clientVars, tokenVars>>
    \/ \E error \in {"", "handler error"}, passesWorkflow \in BOOLEAN :
          HandlerFinishes(error, passesWorkflow)
          /\ UNCHANGED <<webhookVars, actionVars, modelVars, clientVars, tokenVars>>

SpecCalling == InitCalling /\ [][NextCalling]_vars

InitToken ==
    /\ TokenServiceConstructed
    /\ ClientIdle
    /\ CallingIdle
    /\ WebhookIdle
    /\ ActionsIdle
    /\ ModelIdle

CallerAsks ==
    \E c \in 1..MaxCallers :
        getToken(c) /\ UNCHANGED <<webhookVars, actionVars, modelVars, clientVars, callVars>>

TimePasses ==
    TokenExpires /\ UNCHANGED <<webhookVars, actionVars, modelVars, clientVars, callVars>>

RenewalAnswered ==
    \E outcome \in RenewalOutcomes, fresh \in BOOLEAN :
        RenewalEnds(outcome, fresh)
        /\ UNCHANGED <<webhookVars, actionVars, modelVars, clientVars, callVars>>

NextToken == CallerAsks \/ TimePasses \/ RenewalAnswered

SpecToken == InitToken /\ [][NextToken]_vars

\* The token endpoint answers every renewal request, or the request fails
SpecTokenFair == SpecToken /\ WF_vars(RenewalAnswered)

====
